---- MODULE Spec2Model ----
(***************************************************************************)
(* State façade of the execution cache (crates/database/src/states/state.rs) *)
(* as a state machine: the cache over the database, the transition buffer, *)
(* the bundle with its per-block reverts, and the block-hash window.       *)
(*                                                                         *)
(* Eleven specifications share the variables:                              *)
(*   SpecBlockHash    block_hash over a seeded block_hashes map            *)
(*   Spec             the account cache: basic, increment_balances,        *)
(*                    drain_balances, insert_*                             *)
(*   SpecStorage      storage over cached accounts of every status         *)
(*   SpecBundle       apply_transition, merge_transitions, take_bundle     *)
(*   SpecDatabase     basic, storage, code_by_hash, block_hash over a      *)
(*                    database that may fail                               *)
(*   SpecBalances     increment_balances, drain_balances with a buffer     *)
(*   SpecLockstep     every writer of a cached account, commit included    *)
(*   SpecDatabaseRef  the read-only *_ref variants                         *)
(*   SpecRevertOrder  transitions of two accounts merged into reverts      *)
(*   SpecNoBuffer     a State built without a transition buffer            *)
(*   SpecFacade       every &mut self operation of the facade on one State *)
(* bundle_state.state_size and reverts_size (size hints) are not modelled. *)
(***************************************************************************)
EXTENDS Integers, Sequences, FiniteSets, TLC

VARIABLES
    cache_accounts,       \* State.cache.accounts : Address -> CacheAccount (partial)
    cache_contracts,      \* State.cache.contracts : code hash -> bytecode (partial)
    transition_state,     \* State.transition_state : Option<TransitionState>
    bundle_state,         \* State.bundle_state
    use_preloaded_bundle, \* State.use_preloaded_bundle
    block_hashes,         \* State.block_hashes : u64 -> B256 (partial, ordered)
    db_accounts,          \* the database: basic(address)
    db_storage,           \* the database: storage(address, index)
    world,                \* SpecBundle: the account state the transitions describe
    pre_block,            \* SpecBundle: world at the last merge_transitions
    last                  \* the last call: its arguments, result and database calls

vars == <<cache_accounts, cache_contracts, transition_state, bundle_state,
          use_preloaded_bundle, block_hashes, db_accounts, db_storage,
          world, pre_block, last>>

----------------------------------------------------------------------------
(* Bounds of the model *)

NumAddrs == 2
NumStorageAddrs == 1
NumKeys == 2
MaxValue == 2
MaxBalance == 2
MaxDbBalance == 1
MaxList == 2
MaxAmount == 1
MaxEpoch == 1
MaxOffset == 2
NumBundleAddrs == 1
NumInfos == 2
MaxWrites == 1
MaxTransitions == 4
MaxBlocks == 2
NumCodes == 2
NumCodeVersions == 2

(* Program constants *)

BLOCK_HASH_HISTORY == 256

----------------------------------------------------------------------------
(* Option and Result *)

None == << >>
Some(x) == <<x>>
IsSome(o) == o # << >>
Unwrap(o) == o[1]

Ok(v) == [ok |-> TRUE, val |-> v]
Err == [ok |-> FALSE]

(* The error the database returns when the call fails *)
DbError(call) == [ok |-> FALSE, error |-> call]

(* Mutant: the error of the database is replaced by one of the facade *)
QuestionMarkWrapped(error) == Err

(* The ? operator on a failed database call: Self::Error = DB::Error, the
   error is returned as it is *)
QuestionMark(error) == error

EmptyMap == << >>

Min(S) == CHOOSE x \in S : \A y \in S : x <= y
Max(S) == CHOOSE x \in S : \A y \in S : x >= y

(* m with key k removed *)
MapRemove(m, k) == [x \in DOMAIN m \ {k} |-> m[x]]

(* m with key k set to v *)
MapInsert(m, k, v) == [x \in DOMAIN m \cup {k} |-> IF x = k THEN v ELSE m[x]]

----------------------------------------------------------------------------
(* Value model *)

Addrs == 1..NumAddrs
Keys == 1..NumKeys
Values == 0..MaxValue
ZERO == 0
KECCAK_EMPTY == 0

AccountInfo(balance, nonce, code_hash) ==
    [balance |-> balance, nonce |-> nonce, code_hash |-> code_hash]

(* AccountInfo::default() *)
DefaultInfo == AccountInfo(0, 0, KECCAK_EMPTY)

(* AccountInfo::is_empty *)
is_empty(info) == info.balance = 0 /\ info.nonce = 0 /\ info.code_hash = KECCAK_EMPTY

(* AccountStatus::is_storage_known: every status but Loaded, Changed, LoadedEmptyEIP161 *)
is_storage_known(status) == status \notin {"Loaded", "Changed", "LoadedEmptyEIP161"}

NoAccountStatuses == {"LoadedNotExisting", "Destroyed", "DestroyedAgain"}

PlainAccount(info, storage) == [info |-> info, storage |-> storage]

CacheAccount(account, status) == [account |-> account, status |-> status]

(* Mutant: an account known to be absent is cached with default plain data *)
new_loaded_not_existing_with_data ==
    CacheAccount(<<[info |-> [balance |-> 0, nonce |-> 0, code_hash |-> 0],
                    storage |-> << >>]>>, "LoadedNotExisting")

new_loaded_not_existing == CacheAccount(None, "LoadedNotExisting")

new_loaded_empty_eip161(storage) ==
    CacheAccount(Some(PlainAccount(DefaultInfo, storage)), "LoadedEmptyEIP161")

new_loaded(info, storage) == CacheAccount(Some(PlainAccount(info, storage)), "Loaded")

(* CacheAccount::account_info *)
account_info(cache_account) ==
    IF IsSome(cache_account.account) THEN Some(Unwrap(cache_account.account).info) ELSE None

StorageSlot(original, present) == [original_value |-> original, present_value |-> present]

TransitionAccount(status, info, previous_status, previous_info, storage, destroyed) ==
    [status |-> status, info |-> info, previous_status |-> previous_status,
     previous_info |-> previous_info, storage |-> storage,
     storage_was_destroyed |-> destroyed]

BundleAccount(info, original_info, storage, status) ==
    [info |-> info, original_info |-> original_info, storage |-> storage, status |-> status]

EmptyBundle == [state |-> EmptyMap, contracts |-> EmptyMap, reverts |-> << >>]

(* From<BundleAccount> for CacheAccount: the present values, the info, the status *)
CacheAccountFromBundle(b) ==
    CacheAccount(
        IF IsSome(b.info)
        THEN Some(PlainAccount(Unwrap(b.info),
                               [k \in DOMAIN b.storage |-> b.storage[k].present_value]))
        ELSE None,
        b.status)

----------------------------------------------------------------------------
(* The block-hash window: State::block_hash *)

BlockNumbers == {e * BLOCK_HASH_HISTORY + o : e \in 0..MaxEpoch, o \in 0..MaxOffset}

(* The database's hash of block n, and a hash seeded through the builder *)
DbBlockHash(n) == [src |-> "db", n |-> n]
SeedBlockHash(n) == [src |-> "seed", n |-> n]

(* u64::saturating_sub *)
SaturatingSub(a, b) == IF a >= b THEN a - b ELSE 0

(* Mutant: the boundary key number - BLOCK_HASH_HISTORY is pruned too *)
PruneBoundaryToo(hashes, last_block) ==
    [k \in {x \in DOMAIN hashes : x > last_block} |-> hashes[k]]

(* Mutant: nothing is pruned *)
PruneNothing(hashes, last_block) == hashes

(* while let Some(entry) = first_entry() { if key < last_block { remove } else { break } } *)
RECURSIVE PruneLoop(_, _)
PruneLoop(hashes, last_block) ==
    IF DOMAIN hashes = {} THEN hashes
    ELSE LET first == Min(DOMAIN hashes)
         IN IF first < last_block
            THEN PruneLoop(MapRemove(hashes, first), last_block)
            ELSE hashes

Prune(hashes, last_block) == PruneLoop(hashes, last_block)

(* Mutant: a stored hash is refreshed from the database *)
BlockHashRefreshed(number, db_ok) ==
    /\ IF ~db_ok
       THEN /\ block_hashes' = block_hashes
            /\ last' = [op |-> "block_hash", number |-> number,
                        hit |-> number \in DOMAIN block_hashes,
                        res |-> DbError(<<"block_hash", number>>),
                        pre |-> block_hashes, db_calls |-> 1]
       ELSE /\ block_hashes' =
                  Prune(MapInsert(block_hashes, number, DbBlockHash(number)),
                        SaturatingSub(number, BLOCK_HASH_HISTORY))
            /\ last' = [op |-> "block_hash", number |-> number,
                        hit |-> number \in DOMAIN block_hashes,
                        res |-> Ok(DbBlockHash(number)), pre |-> block_hashes,
                        db_calls |-> 1]
    /\ UNCHANGED <<cache_accounts, cache_contracts, transition_state, bundle_state,
                   use_preloaded_bundle, db_accounts, db_storage, world, pre_block>>

(* block_hash(number) with the database answering (db_ok) or failing *)
BlockHash(number, db_ok) ==
    /\ IF number \in DOMAIN block_hashes
       THEN /\ block_hashes' = block_hashes
            /\ last' = [op |-> "block_hash", number |-> number, hit |-> TRUE,
                        res |-> Ok(block_hashes[number]), pre |-> block_hashes,
                        db_calls |-> 0]
       ELSE IF ~db_ok
       THEN /\ block_hashes' = block_hashes
            /\ last' = [op |-> "block_hash", number |-> number, hit |-> FALSE,
                        res |-> QuestionMark(DbError(<<"block_hash", number>>)),
                        pre |-> block_hashes, db_calls |-> 1]
       ELSE /\ block_hashes' =
                  Prune(MapInsert(block_hashes, number, DbBlockHash(number)),
                        SaturatingSub(number, BLOCK_HASH_HISTORY))
            /\ last' = [op |-> "block_hash", number |-> number, hit |-> FALSE,
                        res |-> Ok(DbBlockHash(number)), pre |-> block_hashes,
                        db_calls |-> 1]
    /\ UNCHANGED <<cache_accounts, cache_contracts, transition_state, bundle_state,
                   use_preloaded_bundle, db_accounts, db_storage, world, pre_block>>

BlockHashCall == \E number \in BlockNumbers, db_ok \in BOOLEAN : BlockHash(number, db_ok)

(* StateBuilder::with_block_hashes seeds any map; the rest is the default State *)
InitBlockHash ==
    /\ \E seeded \in SUBSET BlockNumbers :
           block_hashes = [n \in seeded |-> SeedBlockHash(n)]
    /\ cache_accounts = EmptyMap
    /\ cache_contracts = EmptyMap
    /\ transition_state = None
    /\ bundle_state = EmptyBundle
    /\ use_preloaded_bundle = FALSE
    /\ db_accounts = EmptyMap
    /\ db_storage = EmptyMap
    /\ world = EmptyMap
    /\ pre_block = EmptyMap
    /\ last = [op |-> "init"]

NextBlockHash == BlockHashCall

SpecBlockHash == InitBlockHash /\ [][NextBlockHash]_vars

----------------------------------------------------------------------------
(* Claims on the block-hash window *)

LastBlockHashOk == last.op = "block_hash" /\ last.res.ok

(* C5 as stated: after any successful block_hash(n), hit or miss, no key of
   block_hashes is less than n - BLOCK_HASH_HISTORY *)
C5_PrunedAfterAnyCall ==
    LastBlockHashOk =>
        \A k \in DOMAIN block_hashes :
            k >= SaturatingSub(last.number, BLOCK_HASH_HISTORY)

(* C5 amended: after a successful block_hash(n) that missed the cache, no key
   of block_hashes is less than n - BLOCK_HASH_HISTORY; a hit prunes nothing *)
C5_PrunedAfterMiss ==
    /\ (LastBlockHashOk /\ ~last.hit) =>
           \A k \in DOMAIN block_hashes :
               k >= SaturatingSub(last.number, BLOCK_HASH_HISTORY)
    /\ (LastBlockHashOk /\ last.hit) => block_hashes = last.pre

C5_Witness ==
    /\ LastBlockHashOk /\ ~last.hit
    /\ \E k \in DOMAIN last.pre : k < SaturatingSub(last.number, BLOCK_HASH_HISTORY)

(* C6: a successful miss leaves n mapped to the database's hash, keeps every
   earlier key k >= n - BLOCK_HASH_HISTORY (saturating) with its value, and
   removes every key below it *)
C6_MissEffect ==
    (LastBlockHashOk /\ ~last.hit) =>
        LET lo == SaturatingSub(last.number, BLOCK_HASH_HISTORY)
            kept == {k \in DOMAIN last.pre : k >= lo}
        IN /\ DOMAIN block_hashes = kept \cup {last.number}
           /\ block_hashes[last.number] = DbBlockHash(last.number)
           /\ last.res = Ok(DbBlockHash(last.number))
           /\ \A k \in kept : block_hashes[k] = last.pre[k]

C6_Witness ==
    /\ LastBlockHashOk /\ ~last.hit
    /\ LET lo == SaturatingSub(last.number, BLOCK_HASH_HISTORY)
       IN /\ lo > 0
          /\ lo \in DOMAIN last.pre /\ lo \in DOMAIN block_hashes
          /\ \E k \in DOMAIN last.pre : k < lo
          /\ \E k \in DOMAIN last.pre : k > last.number

----------------------------------------------------------------------------
(* The transition buffer: TransitionState::add_transitions *)

(* Mutant: the composite takes the newer entry's previous status and info *)
TransitionUpdateNewerPrevious(older, newer) ==
    [status |-> newer.status,
     info |-> newer.info,
     previous_status |-> newer.previous_status,
     previous_info |-> newer.previous_info,
     storage |-> newer.storage,
     storage_was_destroyed |-> older.storage_was_destroyed \/ newer.storage_was_destroyed]

(* TransitionAccount::update: the older entry's previous_*, the newer entry's
   status and info; a newer slot keeps the older slot's original value; a
   destruction in the newer entry discards the older entry's slots *)
TransitionUpdate(older, newer) ==
    [status |-> newer.status,
     info |-> newer.info,
     previous_status |-> older.previous_status,
     previous_info |-> older.previous_info,
     storage |->
        IF newer.storage_was_destroyed
        THEN newer.storage
        ELSE [k \in DOMAIN older.storage \cup DOMAIN newer.storage |->
                 IF k \notin DOMAIN newer.storage THEN older.storage[k]
                 ELSE IF k \in DOMAIN older.storage
                      THEN StorageSlot(older.storage[k].original_value,
                                       newer.storage[k].present_value)
                      ELSE newer.storage[k]],
     storage_was_destroyed |-> older.storage_was_destroyed \/ newer.storage_was_destroyed]

(* One (address, transition) pair added to the map of transitions *)
AddTransition(transitions, address, t) ==
    IF address \in DOMAIN transitions
    THEN MapInsert(transitions, address, TransitionUpdate(transitions[address], t))
    ELSE MapInsert(transitions, address, t)

RECURSIVE AddTransitions(_, _)
AddTransitions(transitions, list) ==
    IF list = << >> THEN transitions
    ELSE AddTransitions(AddTransition(transitions, list[1][1], list[1][2]), Tail(list))

(* Mutant: a State without a buffer gets one on the first transition *)
ApplyTransitionToCreating(ts, list) ==
    IF ts = << >> THEN <<AddTransitions(<< >>, list)>> ELSE <<AddTransitions(ts[1], list)>>

(* if let Some(s) = self.transition_state.as_mut() { s.add_transitions(transitions) } *)
ApplyTransitionTo(ts, list) ==
    IF IsSome(ts) THEN Some(AddTransitions(Unwrap(ts), list)) ELSE ts

----------------------------------------------------------------------------
(* The account cache: State::load_cache_account, basic, storage *)

(* Mutant: an empty database account is cached as Loaded *)
CacheAccountFromDbEmptyAsLoaded(info) ==
    IF info = None THEN new_loaded_not_existing
    ELSE new_loaded(Unwrap(info), EmptyMap)

(* match info { None => .., Some(acc) if acc.is_empty() => .., Some(acc) => .. } *)
CacheAccountFromDb(info) ==
    IF info = None THEN new_loaded_not_existing
    ELSE IF is_empty(Unwrap(info)) THEN new_loaded_empty_eip161(EmptyMap)
    ELSE new_loaded(Unwrap(info), EmptyMap)

(* Mutant: the loaded account is handed back but not kept in the cache *)
EntryInsertDropped(cache, address, account) == cache

(* entry.insert(account) *)
EntryInsert(cache, address, account) == MapInsert(cache, address, account)

(* Mutant: the bundle is consulted whether or not use_preloaded_bundle is set *)
LoadCacheAccountAlwaysBundle(cache, address, db_ok) ==
    IF address \in DOMAIN cache
    THEN [ok |-> TRUE, cache |-> cache, account |-> cache[address], db_basic |-> << >>]
    ELSE IF address \in DOMAIN bundle_state.state
    THEN LET account == CacheAccountFromBundle(bundle_state.state[address])
         IN [ok |-> TRUE, cache |-> EntryInsert(cache, address, account),
             account |-> account, db_basic |-> << >>]
    ELSE IF ~db_ok
    THEN [ok |-> FALSE, cache |-> cache, account |-> None, db_basic |-> <<address>>]
    ELSE LET account == CacheAccountFromDb(db_accounts[address])
         IN [ok |-> TRUE, cache |-> EntryInsert(cache, address, account),
             account |-> account, db_basic |-> <<address>>]

(* load_cache_account on the map `cache`: the map afterwards, the account
   referred to, and the addresses the database's basic was asked for *)
LoadCacheAccount(cache, address, db_ok) ==
    IF address \in DOMAIN cache
    THEN [ok |-> TRUE, cache |-> cache, account |-> cache[address], db_basic |-> << >>]
    ELSE IF use_preloaded_bundle /\ address \in DOMAIN bundle_state.state
    THEN LET account == CacheAccountFromBundle(bundle_state.state[address])
         IN [ok |-> TRUE, cache |-> EntryInsert(cache, address, account),
             account |-> account, db_basic |-> << >>]
    ELSE IF ~db_ok
    THEN [ok |-> FALSE, cache |-> cache, account |-> None, db_basic |-> <<address>>]
    ELSE LET account == CacheAccountFromDb(db_accounts[address])
         IN [ok |-> TRUE, cache |-> EntryInsert(cache, address, account),
             account |-> account, db_basic |-> <<address>>]

FacadeUnchanged ==
    UNCHANGED <<cache_contracts, bundle_state, use_preloaded_bundle, block_hashes,
                db_accounts, db_storage, world, pre_block>>

(* Database::basic for State *)
Basic(address, db_ok) ==
    LET l == LoadCacheAccount(cache_accounts, address, db_ok)
    IN /\ cache_accounts' = l.cache
       /\ last' = [op |-> "basic", address |-> address,
                   res |-> IF l.ok THEN Ok(account_info(l.account)) ELSE Err,
                   db_basic |-> l.db_basic]
       /\ UNCHANGED transition_state
       /\ FacadeUnchanged

(* Mutant: a missing slot is always fetched from the database *)
StorageVacantAlwaysDb(known, address, index) ==
    [value |-> db_storage[address][index], db_calls |-> 1]

(* let value = if is_storage_known { ZERO } else { self.database.storage(..)? } *)
StorageVacant(known, address, index) ==
    IF known THEN [value |-> ZERO, db_calls |-> 0]
    ELSE [value |-> db_storage[address][index], db_calls |-> 1]

(* Database::storage for State, the account being in the cache *)
Storage(address, index, db_ok) ==
    /\ address \in DOMAIN cache_accounts
    /\ LET account == cache_accounts[address]
           known == is_storage_known(account.status)
           record(res, cached, calls) ==
               [op |-> "storage", address |-> address, index |-> index, res |-> res,
                cached |-> cached, db_calls |-> calls]
       IN IF ~IsSome(account.account)
          THEN /\ cache_accounts' = cache_accounts
               /\ last' = record(Ok(ZERO), FALSE, 0)
          ELSE LET plain == Unwrap(account.account)
               IN IF index \in DOMAIN plain.storage
                  THEN /\ cache_accounts' = cache_accounts
                       /\ last' = record(Ok(plain.storage[index]), TRUE, 0)
                  ELSE LET v == StorageVacant(known, address, index)
                       IN IF v.db_calls > 0 /\ ~db_ok
                          THEN /\ cache_accounts' = cache_accounts
                               /\ last' = record(
                                      QuestionMark(DbError(<<"storage", address, index>>)),
                                      FALSE, v.db_calls)
                          ELSE /\ cache_accounts' =
                                     [cache_accounts EXCEPT ![address].account =
                                         Some(PlainAccount(plain.info,
                                              MapInsert(plain.storage, index, v.value)))]
                               /\ last' = record(Ok(v.value), FALSE, v.db_calls)
    /\ UNCHANGED transition_state
    /\ FacadeUnchanged

(* Mutant: the read of an account that was never loaded answers ZERO *)
UnreachableAsDefault == Ok(ZERO)

(* unreachable!(): the call aborts, it returns neither a value nor an error *)
Unreachable == [ok |-> FALSE, trap |-> TRUE]

(* Database::storage for an address that was never loaded: unreachable!() *)
StorageNotLoaded(address, index) ==
    /\ address \notin DOMAIN cache_accounts
    /\ last' = [op |-> "storage", address |-> address, index |-> index,
                res |-> Unreachable, cached |-> FALSE, db_calls |-> 0]
    /\ UNCHANGED <<cache_accounts, transition_state>>
    /\ FacadeUnchanged

(* The code hashes asked for, the bytecode the database holds for a hash and
   the bytecode a preloaded bundle holds for it *)
CodeHashes == 1..NumCodes
CodeVersions == 1..NumCodeVersions
DbCode(code_hash, version) ==
    [src |-> "db", code_hash |-> code_hash, version |-> version]
BundleCode(code_hash) == [src |-> "bundle", code_hash |-> code_hash]

(* Mutant: the database is asked even when the cache holds the hash *)
CodeByHashAlwaysDatabase(code_hash, db_ok, version) ==
    /\ LET record(res, calls) ==
               [op |-> "code_by_hash", code_hash |-> code_hash, res |-> res,
                db_calls |-> calls, db_code |-> DbCode(code_hash, version)]
       IN IF ~db_ok
          THEN /\ cache_contracts' = cache_contracts
               /\ last' = record(DbError(<<"code_by_hash", code_hash>>), 1)
          ELSE /\ cache_contracts' =
                      MapInsert(cache_contracts, code_hash, DbCode(code_hash, version))
               /\ last' = record(Ok(DbCode(code_hash, version)), 1)
    /\ UNCHANGED <<cache_accounts, transition_state, bundle_state, use_preloaded_bundle,
                   block_hashes, db_accounts, db_storage, world, pre_block>>

(* Database::code_by_hash for State; `version` is the bytecode the database
   holds for the hash at the time of the call, recorded as last.db_code *)
CodeByHash(code_hash, db_ok, version) ==
    /\ LET record(res, calls) ==
               [op |-> "code_by_hash", code_hash |-> code_hash, res |-> res,
                db_calls |-> calls, db_code |-> DbCode(code_hash, version)]
       IN IF code_hash \in DOMAIN cache_contracts
          THEN /\ cache_contracts' = cache_contracts
               /\ last' = record(Ok(cache_contracts[code_hash]), 0)
          ELSE IF use_preloaded_bundle /\ code_hash \in DOMAIN bundle_state.contracts
          THEN /\ cache_contracts' =
                      MapInsert(cache_contracts, code_hash, bundle_state.contracts[code_hash])
               /\ last' = record(Ok(bundle_state.contracts[code_hash]), 0)
          ELSE IF ~db_ok
          THEN /\ cache_contracts' = cache_contracts
               /\ last' = record(QuestionMark(DbError(<<"code_by_hash", code_hash>>)), 1)
          ELSE /\ cache_contracts' =
                      MapInsert(cache_contracts, code_hash, DbCode(code_hash, version))
               /\ last' = record(Ok(DbCode(code_hash, version)), 1)
    /\ UNCHANGED <<cache_accounts, transition_state, bundle_state, use_preloaded_bundle,
                   block_hashes, db_accounts, db_storage, world, pre_block>>

----------------------------------------------------------------------------
(* increment_balances, drain_balances, insert_* *)

(* AccountStatus::on_changed: the status of an account whose info was changed *)
on_changed(status) ==
    CASE status = "LoadedNotExisting" -> "InMemoryChange"
      [] status = "LoadedEmptyEIP161" -> "InMemoryChange"
      [] status = "Loaded" -> "Changed"
      [] status = "Changed" -> "Changed"
      [] status = "InMemoryChange" -> "InMemoryChange"
      [] status = "DestroyedChanged" -> "DestroyedChanged"
      [] status \in {"Destroyed", "DestroyedAgain"} -> "DestroyedChanged"

(* CacheAccount::account_info_change with the info set to new_info: the
   account afterwards and the transition it emits *)
account_info_change(cache_account, new_info) ==
    LET plain == IF IsSome(cache_account.account) THEN Unwrap(cache_account.account)
                 ELSE PlainAccount(DefaultInfo, EmptyMap)
        status == on_changed(cache_account.status)
    IN [account |-> CacheAccount(Some(PlainAccount(new_info, plain.storage)), status),
        transition |-> TransitionAccount(status, Some(new_info), cache_account.status,
                                         account_info(cache_account), EmptyMap, FALSE)]

BalanceOf(cache_account) ==
    IF IsSome(cache_account.account) THEN Unwrap(cache_account.account).info.balance ELSE 0

InfoOrDefault(cache_account) ==
    IF IsSome(cache_account.account) THEN Unwrap(cache_account.account).info ELSE DefaultInfo

(* CacheAccount::increment_balance *)
increment_balance(cache_account, balance) ==
    account_info_change(cache_account,
        [InfoOrDefault(cache_account) EXCEPT !.balance = @ + balance])

(* CacheAccount::drain_balance *)
drain_balance(cache_account) ==
    account_info_change(cache_account, [InfoOrDefault(cache_account) EXCEPT !.balance = 0])

(* Mutant: an entry of amount zero is processed like any other *)
RECURSIVE IncrementLoopZeroProcessed(_, _, _, _, _)
IncrementLoopZeroProcessed(cache, balances, fail, transitions, db_basic) ==
    IF balances = << >>
    THEN [ok |-> TRUE, cache |-> cache, transitions |-> transitions, db_basic |-> db_basic]
    ELSE LET address == balances[1][1]
             l == LoadCacheAccount(cache, address, address \notin fail)
         IN IF ~l.ok
            THEN [ok |-> FALSE, cache |-> l.cache, transitions |-> transitions,
                  db_basic |-> db_basic \o l.db_basic]
            ELSE LET r == increment_balance(l.account, balances[1][2])
                 IN IncrementLoopZeroProcessed(
                        MapInsert(l.cache, address, r.account), Tail(balances), fail,
                        Append(transitions, <<address, r.transition>>),
                        db_basic \o l.db_basic)

(* The loop of increment_balances over the (address, balance) pairs: `fail` are
   the addresses the database's basic fails for. A failed load returns at once
   (the ? operator) with the cache as the earlier iterations left it. *)
RECURSIVE IncrementLoop(_, _, _, _, _)
IncrementLoop(cache, balances, fail, transitions, db_basic) ==
    IF balances = << >>
    THEN [ok |-> TRUE, cache |-> cache, transitions |-> transitions, db_basic |-> db_basic]
    ELSE LET address == balances[1][1]
             balance == balances[1][2]
         IN IF balance = 0
            THEN IncrementLoop(cache, Tail(balances), fail, transitions, db_basic)
            ELSE LET l == LoadCacheAccount(cache, address, address \notin fail)
                 IN IF ~l.ok
                    THEN [ok |-> FALSE, cache |-> l.cache, transitions |-> transitions,
                          db_basic |-> db_basic \o l.db_basic]
                    ELSE LET r == increment_balance(l.account, balance)
                         IN IncrementLoop(MapInsert(l.cache, address, r.account),
                                          Tail(balances), fail,
                                          Append(transitions, <<address, r.transition>>),
                                          db_basic \o l.db_basic)

(* Mutant: the balance returned is read after the account was drained *)
RECURSIVE DrainLoopReadsAfter(_, _, _, _, _, _)
DrainLoopReadsAfter(cache, addresses, fail, transitions, balances, db_basic) ==
    IF addresses = << >>
    THEN [ok |-> TRUE, cache |-> cache, transitions |-> transitions,
          balances |-> balances, db_basic |-> db_basic]
    ELSE LET address == addresses[1]
             l == LoadCacheAccount(cache, address, address \notin fail)
         IN IF ~l.ok
            THEN [ok |-> FALSE, cache |-> l.cache, transitions |-> transitions,
                  balances |-> balances, db_basic |-> db_basic \o l.db_basic]
            ELSE LET r == drain_balance(l.account)
                 IN DrainLoopReadsAfter(
                        MapInsert(l.cache, address, r.account), Tail(addresses), fail,
                        Append(transitions, <<address, r.transition>>),
                        Append(balances, BalanceOf(r.account)),
                        db_basic \o l.db_basic)

(* The loop of drain_balances over the addresses *)
RECURSIVE DrainLoop(_, _, _, _, _, _)
DrainLoop(cache, addresses, fail, transitions, balances, db_basic) ==
    IF addresses = << >>
    THEN [ok |-> TRUE, cache |-> cache, transitions |-> transitions,
          balances |-> balances, db_basic |-> db_basic]
    ELSE LET address == addresses[1]
             l == LoadCacheAccount(cache, address, address \notin fail)
         IN IF ~l.ok
            THEN [ok |-> FALSE, cache |-> l.cache, transitions |-> transitions,
                  balances |-> balances, db_basic |-> db_basic \o l.db_basic]
            ELSE LET r == drain_balance(l.account)
                 IN DrainLoop(MapInsert(l.cache, address, r.account), Tail(addresses),
                              fail, Append(transitions, <<address, r.transition>>),
                              Append(balances, BalanceOf(l.account)),
                              db_basic \o l.db_basic)

BalancesInBound(cache) == \A a \in DOMAIN cache : BalanceOf(cache[a]) <= MaxBalance

ListsOf(S) == UNION {[1..n -> S] : n \in 0..MaxList}

(* State::increment_balances; last.transitions are the transitions handed to the
   buffer, none when the State was built without one *)
IncrementBalances(balances, fail) ==
    LET r == IncrementLoop(cache_accounts, balances, fail, << >>, << >>)
    IN /\ BalancesInBound(r.cache)
       /\ cache_accounts' = r.cache
       /\ transition_state' =
              IF r.ok THEN ApplyTransitionTo(transition_state, r.transitions)
              ELSE transition_state
       /\ last' = [op |-> "increment_balances", balances |-> balances,
                   res |-> IF r.ok THEN Ok(<< >>) ELSE Err, db_basic |-> r.db_basic,
                   transitions |-> IF IsSome(transition_state) THEN r.transitions ELSE << >>]
       /\ FacadeUnchanged

(* State::drain_balances *)
DrainBalances(addresses, fail) ==
    LET r == DrainLoop(cache_accounts, addresses, fail, << >>, << >>, << >>)
    IN /\ cache_accounts' = r.cache
       /\ transition_state' =
              IF r.ok THEN ApplyTransitionTo(transition_state, r.transitions)
              ELSE transition_state
       /\ last' = [op |-> "drain_balances", addresses |-> addresses,
                   res |-> IF r.ok THEN Ok(r.balances) ELSE Err, db_basic |-> r.db_basic,
                   transitions |-> IF IsSome(transition_state) THEN r.transitions ELSE << >>]
       /\ FacadeUnchanged

(* State::insert_not_existing -> CacheState::insert_not_existing *)
InsertNotExisting(address) ==
    /\ cache_accounts' = MapInsert(cache_accounts, address, new_loaded_not_existing)
    /\ last' = [op |-> "insert_not_existing", address |-> address]
    /\ UNCHANGED transition_state
    /\ FacadeUnchanged

(* State::insert_account -> CacheState::insert_account *)
InsertAccount(address, info) ==
    /\ cache_accounts' =
           MapInsert(cache_accounts, address,
                     IF is_empty(info) THEN new_loaded_empty_eip161(EmptyMap)
                     ELSE new_loaded(info, EmptyMap))
    /\ last' = [op |-> "insert_account", address |-> address]
    /\ UNCHANGED transition_state
    /\ FacadeUnchanged

(* State::insert_account_with_storage -> CacheState::insert_account_with_storage *)
InsertAccountWithStorage(address, info, storage) ==
    /\ cache_accounts' =
           MapInsert(cache_accounts, address,
                     IF is_empty(info) THEN new_loaded_empty_eip161(storage)
                     ELSE new_loaded(info, storage))
    /\ last' = [op |-> "insert_account_with_storage", address |-> address]
    /\ UNCHANGED transition_state
    /\ FacadeUnchanged

----------------------------------------------------------------------------
(* The specification of the account cache *)

(* What the database holds for an account: nothing, an empty account or a
   funded one *)
DbInfos == {AccountInfo(b, 0, KECCAK_EMPTY) : b \in 0..MaxDbBalance}

FundedInfo == AccountInfo(MaxDbBalance, 0, KECCAK_EMPTY)

(* Bundles handed to StateBuilder::with_bundle_prestate: the first address
   re-created after a selfdestruct, or destroyed *)
PrestateAccounts ==
    {BundleAccount(Some(FundedInfo), Some(FundedInfo), EmptyMap, "DestroyedChanged"),
     BundleAccount(None, Some(FundedInfo), EmptyMap, "Destroyed")}

(* The bundle handed to with_bundle_prestate: an account and one bytecode *)
PrestateBundles ==
    {[EmptyBundle EXCEPT !.state = MapInsert(EmptyMap, 1, b),
                         !.contracts = MapInsert(EmptyMap, 1, BundleCode(1))] :
     b \in PrestateAccounts}

(* StateBuilder::build, with or without with_bundle_prestate *)
InitBuilt ==
    /\ \/ /\ use_preloaded_bundle = FALSE
          /\ bundle_state = EmptyBundle
       \/ /\ use_preloaded_bundle = TRUE
          /\ \E b \in PrestateAccounts :
                 bundle_state = [EmptyBundle EXCEPT !.state = MapInsert(EmptyMap, 1, b)]
    /\ transition_state = None
    /\ cache_accounts = EmptyMap
    /\ cache_contracts = EmptyMap
    /\ block_hashes = EmptyMap
    /\ world = EmptyMap
    /\ pre_block = EmptyMap
    /\ last = [op |-> "init"]

Init ==
    /\ db_accounts \in [Addrs -> {None} \cup {Some(i) : i \in DbInfos}]
    /\ db_storage = [a \in Addrs |-> [k \in Keys |-> ZERO]]
    /\ InitBuilt

(* The database fails for no address or for one *)
FailSets == {{}} \cup {{a} : a \in Addrs}

BasicCall == \E address \in Addrs, db_ok \in BOOLEAN : Basic(address, db_ok)

IncrementBalancesCall ==
    \E balances \in ListsOf(Addrs \X (0..MaxAmount)), fail \in FailSets :
        IncrementBalances(balances, fail)

DrainBalancesCall ==
    \E addresses \in ListsOf(Addrs), fail \in FailSets : DrainBalances(addresses, fail)

InsertNotExistingCall == \E address \in Addrs : InsertNotExisting(address)

InsertAccountCall == \E address \in Addrs, info \in DbInfos : InsertAccount(address, info)

Next ==
    \/ BasicCall
    \/ IncrementBalancesCall
    \/ DrainBalancesCall
    \/ InsertNotExistingCall
    \/ InsertAccountCall

Spec == Init /\ [][Next]_vars

----------------------------------------------------------------------------
(* The specification of storage reads *)

StorageAddrs == 1..NumStorageAddrs

(* Only an account the database holds has storage there *)
DbStates ==
    {[info |-> None, storage |-> [k \in Keys |-> ZERO]]} \cup
    {[info |-> Some(i), storage |-> st] : i \in DbInfos, st \in [Keys -> Values]}

InitStorage ==
    /\ \E db \in [StorageAddrs -> DbStates] :
          /\ db_accounts = [a \in Addrs |-> IF a \in StorageAddrs THEN db[a].info ELSE None]
          /\ db_storage = [a \in Addrs |-> IF a \in StorageAddrs THEN db[a].storage
                                           ELSE [k \in Keys |-> ZERO]]
    /\ InitBuilt

LoadCall == \E address \in StorageAddrs, db_ok \in BOOLEAN : Basic(address, db_ok)

StorageCall ==
    \E address \in StorageAddrs, index \in Keys, db_ok \in BOOLEAN :
        Storage(address, index, db_ok)

StorageNotLoadedCall ==
    \E address \in StorageAddrs, index \in Keys : StorageNotLoaded(address, index)

IncrementOneCall ==
    \E address \in StorageAddrs, balance \in 1..MaxAmount :
        IncrementBalances(<< <<address, balance>> >>, {})

DrainOneCall == \E address \in StorageAddrs : DrainBalances(<<address>>, {})

InsertNotExistingStorageCall == \E address \in StorageAddrs : InsertNotExisting(address)

InsertAccountStorageCall ==
    \E address \in StorageAddrs, info \in DbInfos : InsertAccount(address, info)

NextStorage ==
    \/ LoadCall
    \/ StorageCall
    \/ StorageNotLoadedCall
    \/ IncrementOneCall
    \/ DrainOneCall
    \/ InsertNotExistingStorageCall
    \/ InsertAccountStorageCall

SpecStorage == InitStorage /\ [][NextStorage]_vars

----------------------------------------------------------------------------
(* Claims on the account cache *)

Range(seq) == {seq[i] : i \in DOMAIN seq}

LoadingOps == {"basic", "increment_balances", "drain_balances"}

(* C7: storage(addr, k) on a cached account whose status satisfies
   is_storage_known never asks the database, and a slot that is not cached
   reads as ZERO *)
C7_StorageShortCircuit ==
    (/\ last.op = "storage"
     /\ last.address \in DOMAIN cache_accounts
     /\ is_storage_known(cache_accounts[last.address].status))
    => /\ last.db_calls = 0
       /\ ~last.cached => last.res = Ok(ZERO)

(* A re-created or new account whose slot the database still holds a value for *)
C7_Witness ==
    /\ last.op = "storage"
    /\ last.address \in DOMAIN cache_accounts
    /\ is_storage_known(cache_accounts[last.address].status)
    /\ IsSome(cache_accounts[last.address].account)
    /\ ~last.cached
    /\ db_storage[last.address][last.index] # ZERO
    /\ last.res = Ok(ZERO)

(* C8: a successful basic(addr) leaves addr in cache.accounts, no call
   removes a cached address, and an address that is in cache.accounts is never
   asked of the database by basic, increment_balances or drain_balances, so
   the database answers basic at most once for an address; two successive
   successful basic(addr) calls return equal results *)
C8_LoadIdempotent ==
    [][/\ last'.op \in LoadingOps =>
              \A a \in DOMAIN cache_accounts : a \notin Range(last'.db_basic)
       /\ (last'.op = "basic" /\ last'.res.ok) => last'.address \in DOMAIN cache_accounts'
       /\ DOMAIN cache_accounts \subseteq DOMAIN cache_accounts'
       /\ (/\ last.op = "basic" /\ last.res.ok
           /\ last'.op = "basic" /\ last'.res.ok
           /\ last'.address = last.address)
          => /\ last'.res = last.res
             /\ last'.db_basic = << >>]_vars

(* A basic call answered from an entry the database supplied earlier *)
C8_Witness ==
    /\ last.op = "basic" /\ last.res.ok
    /\ last.db_basic = << >>
    /\ ~use_preloaded_bundle
    /\ cache_accounts[last.address].status = "Loaded"
    /\ db_accounts[last.address] = last.res.val

(* C9: a load that finds the address neither in the cache nor in an enabled
   preloaded bundle inserts LoadedNotExisting without account when the
   database has none, LoadedEmptyEIP161 when it has an empty account, Loaded
   with that info otherwise; basic returns None, respectively Some(info) *)
C9_LoadMapping ==
    [][\A a \in Addrs :
          (/\ last'.op = "basic" /\ last'.address = a /\ last'.res.ok
           /\ a \notin DOMAIN cache_accounts
           /\ ~(use_preloaded_bundle /\ a \in DOMAIN bundle_state.state))
          => LET d == db_accounts[a]
                 e == cache_accounts'[a]
             IN /\ last'.res = Ok(d)
                /\ d = None => e.status = "LoadedNotExisting" /\ e.account = None
                /\ (d # None /\ Unwrap(d).balance = 0 /\ Unwrap(d).nonce = 0
                    /\ Unwrap(d).code_hash = KECCAK_EMPTY)
                   => /\ e.status = "LoadedEmptyEIP161"
                      /\ IsSome(e.account) /\ Unwrap(e.account).info = Unwrap(d)
                /\ (d # None /\ ~(Unwrap(d).balance = 0 /\ Unwrap(d).nonce = 0
                                  /\ Unwrap(d).code_hash = KECCAK_EMPTY))
                   => /\ e.status = "Loaded"
                      /\ IsSome(e.account) /\ Unwrap(e.account).info = Unwrap(d)]_vars

(* A load of an empty account from the database *)
C9_Witness ==
    /\ last.op = "basic" /\ last.res.ok
    /\ last.db_basic = <<last.address>>
    /\ db_accounts[last.address] = Some(DefaultInfo)
    /\ cache_accounts[last.address].status = "LoadedEmptyEIP161"

(* C10 as stated: a call of basic, increment_balances or drain_balances that
   returns the database's error leaves the cache exactly as it was before the
   call *)
C10_NoPartialWriteOnError ==
    [][(last'.op \in LoadingOps /\ ~last'.res.ok)
          => cache_accounts' = cache_accounts]_vars

----------------------------------------------------------------------------
(* The bundle: BundleState::apply_transitions_and_create_reverts *)

DoNothing == [kind |-> "DoNothing"]
DeleteIt == [kind |-> "DeleteIt"]
RevertTo(info) == [kind |-> "RevertTo", info |-> info]

RevertToSlotSome(value) == [kind |-> "Some", value |-> value]
RevertToSlotDestroyed == [kind |-> "Destroyed"]

AccountRevert(account, previous_status, storage, wipe_storage) ==
    [account |-> account, previous_status |-> previous_status, storage |-> storage,
     wipe_storage |-> wipe_storage]

(* StorageSlot::is_changed *)
is_changed(slot) == slot.original_value # slot.present_value

(* The info revert of transition t against the bundle account b (None when the
   bundle has no account for the address) *)
InfoRevert(b, t) ==
    IF t.previous_status = "LoadedNotExisting" THEN DeleteIt
    ELSE IF t.previous_info = None THEN DeleteIt
    ELSE IF b = None \/ Unwrap(b).original_info = None
            \/ Unwrap(b).original_info = t.previous_info
    THEN IF t.info # t.previous_info THEN RevertTo(Unwrap(t.previous_info)) ELSE DoNothing
    ELSE DoNothing

(* Mutant: a slot written after a destruction is reverted to its original value *)
StorageRevertNeverDestroyed(t) ==
    [k \in DOMAIN t.storage |-> RevertToSlotSome(t.storage[k].original_value)]

(* The storage revert: the slot's original value, or Destroyed for a slot
   written after the storage was destroyed *)
StorageRevert(t) ==
    [k \in DOMAIN t.storage |->
        IF t.storage_was_destroyed THEN RevertToSlotDestroyed
        ELSE RevertToSlotSome(t.storage[k].original_value)]

(* The bundle account after the transition: storage merged with the present
   values winning, status and info of the transition, original_info set on
   first sighting *)
UpdateBundleAccount(b, t) ==
    IF b = None
    THEN BundleAccount(t.info, t.previous_info, t.storage, t.status)
    ELSE LET old == Unwrap(b)
         IN BundleAccount(
                t.info, old.original_info,
                [k \in DOMAIN old.storage \cup DOMAIN t.storage |->
                    IF k \notin DOMAIN t.storage THEN old.storage[k]
                    ELSE IF k \in DOMAIN old.storage
                         THEN StorageSlot(old.storage[k].original_value,
                                          t.storage[k].present_value)
                         ELSE t.storage[k]],
                t.status)

(* The collapse rule: the merged account's info equals its original_info and
   the block changed no slot *)
IsCollapsed(updated, t) ==
    /\ updated.info = updated.original_info
    /\ \A k \in DOMAIN t.storage : ~is_changed(t.storage[k])

(* The accounts and the block's revert vector after the transitions of the
   addresses in `order` are applied *)
RECURSIVE ApplyTransitions(_, _, _, _, _)
ApplyTransitions(state, reverts, transitions, order, include_reverts) ==
    IF order = << >> THEN [state |-> state, reverts |-> reverts]
    ELSE LET address == order[1]
             t == transitions[address]
             b == IF address \in DOMAIN state THEN Some(state[address]) ELSE None
             updated == UpdateBundleAccount(b, t)
             revert == AccountRevert(InfoRevert(b, t), t.previous_status,
                                     StorageRevert(t), t.storage_was_destroyed)
         IN ApplyTransitions(
                MapInsert(state, address, updated),
                IF include_reverts /\ ~IsCollapsed(updated, t)
                THEN Append(reverts, <<address, revert>>) ELSE reverts,
                transitions, Tail(order), include_reverts)

(* Mutant: every retention records reverts *)
includes_reverts_always(retention) == TRUE

(* BundleRetention::includes_reverts *)
includes_reverts(retention) == retention = "Reverts"

(* Mutant: a block without reverts gets no vector *)
ApplyTransitionsSkippingEmpty(bundle, transitions, order, retention) ==
    LET r == ApplyTransitions(bundle.state, << >>, transitions, order,
                              retention = "Reverts")
    IN [bundle EXCEPT !.state = r.state,
                      !.reverts = IF r.reverts = << >> THEN bundle.reverts
                                  ELSE Append(bundle.reverts, r.reverts)]

(* apply_transitions_and_create_reverts: one outer revert vector per call *)
ApplyTransitionsAndCreateReverts(bundle, transitions, order, retention) ==
    LET r == ApplyTransitions(bundle.state, << >>, transitions, order,
                              includes_reverts(retention))
    IN [bundle EXCEPT !.state = r.state, !.reverts = Append(bundle.reverts, r.reverts)]

(* The orders in which the map of transitions may be iterated: the map is
   unordered, so every enumeration of its keys *)
IterationOrders(S) ==
    {order \in [1..Cardinality(S) -> S] :
        \A i, j \in 1..Cardinality(S) : order[i] = order[j] => i = j}

(* The bundle account with the revert applied: the info deleted, restored or
   kept, every reverted slot restored to its value or wiped, the status set
   back *)
RevertAccount(b, revert) ==
    BundleAccount(
        CASE revert.account.kind = "DoNothing" -> b.info
          [] revert.account.kind = "DeleteIt" -> None
          [] revert.account.kind = "RevertTo" -> Some(revert.account.info),
        b.original_info,
        [k \in {x \in DOMAIN b.storage \cup DOMAIN revert.storage :
                   x \in DOMAIN revert.storage => revert.storage[x].kind = "Some"} |->
            IF k \notin DOMAIN revert.storage THEN b.storage[k]
            ELSE IF k \in DOMAIN b.storage
                 THEN StorageSlot(b.storage[k].original_value, revert.storage[k].value)
                 ELSE StorageSlot(revert.storage[k].value, revert.storage[k].value)],
        revert.previous_status)

----------------------------------------------------------------------------
(* Specification SpecBundle: a state built with_bundle_update; the transitions
   are the ones the cache emits for the accounts of BundleAddrs, whose current
   status, info and storage are kept in world; pre_block is world at the start
   of the block together with the number of transitions applied so far *)

BundleAddrs == 1..NumBundleAddrs

(* The infos an account takes: all non-empty, told apart by the balance *)
Infos == {AccountInfo(b, 1, KECCAK_EMPTY) : b \in 1..NumInfos}

ZeroStorage == [k \in Keys |-> ZERO]

WorldAccount(status, info, storage) ==
    [status |-> status, info |-> info, storage |-> storage]

(* The slot writes of one transition: at most MaxWrites slots, each to a value
   other than the current one *)
Writes(storage) ==
    UNION {{w \in [S -> Values] : \A k \in S : w[k] # storage[k]} :
           S \in {S \in SUBSET Keys : Cardinality(S) <= MaxWrites}}

WrittenSlots(storage, w) == [k \in DOMAIN w |-> StorageSlot(storage[k], w[k])]

WrittenStorage(storage, w) == [k \in Keys |-> IF k \in DOMAIN w THEN w[k] ELSE storage[k]]

(* AccountStatus::on_selfdestructed for an account that exists *)
on_selfdestructed(status) ==
    IF status = "DestroyedChanged" THEN "DestroyedAgain" ELSE "Destroyed"

(* AccountStatus::on_created *)
on_created(status) ==
    IF status = "LoadedNotExisting" THEN "InMemoryChange" ELSE "DestroyedChanged"

(* CacheAccount::selfdestruct: the account and its storage are gone *)
Selfdestruct(w) ==
    [world |-> WorldAccount(on_selfdestructed(w.status), None, ZeroStorage),
     transition |-> TransitionAccount(on_selfdestructed(w.status), None, w.status, w.info,
                                      EmptyMap, TRUE)]

(* CacheAccount::newly_created: an account that does not exist is created with
   the info and the slots written *)
NewlyCreated(w, info, writes) ==
    [world |-> WorldAccount(on_created(w.status), Some(info),
                            WrittenStorage(ZeroStorage, writes)),
     transition |-> TransitionAccount(on_created(w.status), Some(info), w.status, None,
                                      WrittenSlots(ZeroStorage, writes), FALSE)]

(* CacheAccount::change: an account that exists gets the info and the slots
   written *)
Change(w, info, writes) ==
    [world |-> WorldAccount(on_changed(w.status), Some(info),
                            WrittenStorage(w.storage, writes)),
     transition |-> TransitionAccount(on_changed(w.status), Some(info), w.status, w.info,
                                      WrittenSlots(w.storage, writes), FALSE)]

(* The account updates of one VM step, by the account-update rules *)
AccountUpdates(w) ==
    IF IsSome(w.info)
    THEN {Selfdestruct(w)}
         \cup {Change(w, info, writes) : info \in Infos, writes \in Writes(w.storage)}
    ELSE {NewlyCreated(w, info, writes) : info \in Infos, writes \in Writes(ZeroStorage)}

BundleUntouched ==
    UNCHANGED <<cache_accounts, cache_contracts, use_preloaded_bundle, block_hashes,
                db_accounts, db_storage>>

(* What the block did to an account so far: the number of its transitions and
   of its destructions, the slots written since the last destruction, and the
   slots written and then destroyed *)
Untouched == [touches |-> 0, destructions |-> 0, written |-> {}, wiped |-> {}]

Touch(h, t) ==
    IF t.storage_was_destroyed
    THEN [touches |-> h.touches + 1, destructions |-> h.destructions + 1,
          written |-> {}, wiped |-> h.wiped \cup h.written]
    ELSE [h EXCEPT !.touches = @ + 1, !.written = @ \cup DOMAIN t.storage]

(* State::apply_transition with the transition the cache emitted for address *)
ApplyTransition(address, update) ==
    /\ pre_block.transitions < MaxTransitions
    /\ transition_state' = ApplyTransitionTo(transition_state, <<<<address, update.transition>>>>)
    /\ world' = [world EXCEPT ![address] = update.world]
    /\ pre_block' = [pre_block EXCEPT !.transitions = @ + 1,
                                      !.block[address] = Touch(@, update.transition),
                                      !.order = IF \E i \in DOMAIN @ : @[i] = address
                                                THEN @ ELSE Append(@, address)]
    /\ last' = [op |-> "apply_transition", address |-> address]
    /\ UNCHANGED bundle_state
    /\ BundleUntouched

(* Mutant: the buffer is copied, not taken *)
TransitionStateTakeCopies(transitions) == [taken |-> transitions, left |-> transitions]

(* TransitionState::take: the whole map is returned, the buffer is left empty *)
TransitionStateTake(transitions) == [taken |-> transitions, left |-> EmptyMap]

(* State::merge_transitions: take the buffer, apply it to the bundle *)
MergeTransitions(retention) ==
    /\ pre_block.merges < MaxBlocks
    /\ IF IsSome(transition_state)
       THEN LET take == TransitionStateTake(Unwrap(transition_state))
                transitions == take.taken
            IN /\ transition_state' = Some(take.left)
               /\ \E order \in IterationOrders(DOMAIN transitions) :
                      bundle_state' = ApplyTransitionsAndCreateReverts(
                          bundle_state, transitions, order, retention)
               /\ last' = [op |-> "merge_transitions", retention |-> retention,
                           transitions |-> transitions, pre_world |-> pre_block.world,
                           pre_state |-> bundle_state.state, block |-> pre_block.block,
                           blocks |-> Len(bundle_state.reverts)]
       ELSE /\ UNCHANGED <<transition_state, bundle_state>>
            /\ last' = [op |-> "merge_transitions", retention |-> retention,
                        transitions |-> EmptyMap, pre_world |-> pre_block.world,
                        pre_state |-> bundle_state.state, block |-> pre_block.block,
                           blocks |-> Len(bundle_state.reverts)]
    /\ pre_block' = [pre_block EXCEPT !.world = world,
                                      !.block = [a \in DOMAIN @ |-> Untouched],
                                      !.order = << >>,
                                      !.merges = @ + 1]
    /\ UNCHANGED world
    /\ BundleUntouched

(* Mutant: the reverts stay behind *)
MemTakeLeavesReverts(bundle) ==
    [taken |-> bundle, left |-> [EmptyBundle EXCEPT !.reverts = bundle.reverts]]

(* core::mem::take(&mut self.bundle_state): the value is moved out, the default
   is left in its place *)
MemTake(bundle) == [taken |-> bundle, left |-> EmptyBundle]

(* State::take_bundle *)
TakeBundle ==
    /\ bundle_state # EmptyBundle
    /\ bundle_state' = MemTake(bundle_state).left
    /\ last' = [op |-> "take_bundle", bundle |-> MemTake(bundle_state).taken]
    /\ pre_block' = [pre_block EXCEPT !.merges = 0]
    /\ UNCHANGED <<transition_state, world>>
    /\ BundleUntouched

(* The accounts before the first block: absent from the database, or loaded
   from it with some storage *)
InitialAccounts ==
    {WorldAccount("LoadedNotExisting", None, ZeroStorage)}
    \cup {WorldAccount("Loaded", Some(AccountInfo(1, 1, KECCAK_EMPTY)), storage) :
          storage \in [Keys -> {ZERO, MaxValue}]}

(* The account the cache loads from a preloaded bundle account, which holds
   all of its storage *)
WorldFromBundle(b) ==
    WorldAccount(b.status, b.info,
                 [k \in Keys |-> IF k \in DOMAIN b.storage THEN b.storage[k].present_value
                                 ELSE ZERO])

(* State::builder().with_bundle_update().build(), with or without
   with_bundle_prestate *)
InitBundle ==
    /\ \E bundle \in {EmptyBundle} \cup PrestateBundles, w \in [BundleAddrs -> InitialAccounts] :
          /\ bundle_state = bundle
          /\ use_preloaded_bundle = (bundle # EmptyBundle)
          /\ world = [a \in BundleAddrs |->
                          IF a \in DOMAIN bundle.state THEN WorldFromBundle(bundle.state[a])
                          ELSE w[a]]
    /\ pre_block = [world |-> world, transitions |-> 0, merges |-> 0,
                    block |-> [a \in BundleAddrs |-> Untouched], order |-> << >>]
    /\ transition_state = Some(EmptyMap)
    /\ cache_accounts = EmptyMap
    /\ cache_contracts = EmptyMap
    /\ block_hashes = EmptyMap
    /\ db_accounts = EmptyMap
    /\ db_storage = EmptyMap
    /\ last = [op |-> "init"]

ApplyTransitionCall ==
    \E address \in BundleAddrs :
        \E update \in AccountUpdates(world[address]) : ApplyTransition(address, update)

MergeTransitionsCall ==
    \E retention \in {"Reverts", "PlainState"} : MergeTransitions(retention)

NextBundle == ApplyTransitionCall \/ MergeTransitionsCall \/ TakeBundle

SpecBundle == InitBundle /\ [][NextBundle]_vars

----------------------------------------------------------------------------
(* Claims about the bundle *)

MergedWithReverts == last.op = "merge_transitions" /\ last.retention = "Reverts"

(* The revert vector of the block merged last *)
BlockReverts == bundle_state.reverts[Len(bundle_state.reverts)]

(* The revert of the address in the block merged last, if it has one *)
RevertOf(address) ==
    LET entries == {i \in 1..Len(BlockReverts) : BlockReverts[i][1] = address}
    IN IF entries = {} THEN None ELSE Some(BlockReverts[Min(entries)][2])

(* The bundle account of the address with the last block's revert applied *)
Reverted(address) ==
    IF RevertOf(address) = None THEN bundle_state.state[address]
    ELSE RevertAccount(bundle_state.state[address], Unwrap(RevertOf(address)))

(* The address has the info and, in every touched slot the bundle still holds,
   the value it had before the block *)
IsPreBlock(account, address) ==
    /\ account.info = last.pre_world[address].info
    /\ \A k \in DOMAIN account.storage \cap DOMAIN last.transitions[address].storage :
           account.storage[k].present_value = last.pre_world[address].storage[k]

(* C1: after any sequence of apply_transition calls and merge_transitions(Reverts),
   applying the block's revert vector to the post-merge bundle state gives every
   touched address the info and the storage values it had before the block *)
C1_RoundTrip ==
    MergedWithReverts =>
        \A address \in DOMAIN last.transitions : IsPreBlock(Reverted(address), address)

(* The block merged last left the account as it was before the block *)
LeftAsBefore(address) ==
    /\ world[address].info = last.pre_world[address].info
    /\ world[address].storage = last.pre_world[address].storage

(* C2: when the transitions of one block leave every touched account's info and
   every touched slot equal to its pre-block value, merge_transitions(Reverts)
   appends exactly one revert vector and that vector is empty *)
C2_Collapse ==
    (MergedWithReverts /\ \A address \in DOMAIN last.transitions : LeftAsBefore(address))
        => /\ Len(bundle_state.reverts) = last.blocks + 1
           /\ BlockReverts = << >>

(* The collapse for a block merged into a bundle that held no account, whose
   transitions destroyed no account that existed before the block *)
CollapseFirstBlock ==
    (/\ MergedWithReverts
     /\ last.pre_state = EmptyMap
     /\ \A address \in DOMAIN last.transitions :
            /\ LeftAsBefore(address)
            /\ last.pre_world[address].info = None \/ last.block[address].destructions = 0)
        => BlockReverts = << >>

(* The original value the bundle holds for a slot: the one it captured in an
   earlier block, or the pre-block value *)
FirstOriginal(address, k) ==
    IF address \in DOMAIN last.pre_state /\ k \in DOMAIN last.pre_state[address].storage
    THEN last.pre_state[address].storage[k].original_value
    ELSE last.pre_world[address].storage[k]

(* C3 for one account touched by several transitions whose storage was not
   destroyed in the block *)
OldValuesPreserved(address) ==
    LET pre == last.pre_world[address]
        t == last.transitions[address]
        b == bundle_state.state[address]
        revert == RevertOf(address)
    IN /\ (pre.info # None /\ world[address].info # pre.info)
            => /\ revert # None
               /\ Unwrap(revert).account = RevertTo(Unwrap(pre.info))
       /\ revert # None
            => /\ Unwrap(revert).previous_status = pre.status
               /\ pre.status = "LoadedNotExisting" => Unwrap(revert).account = DeleteIt
               /\ DOMAIN Unwrap(revert).storage = last.block[address].written
               /\ \A k \in last.block[address].written :
                      Unwrap(revert).storage[k] = RevertToSlotSome(pre.storage[k])
       /\ b.info = world[address].info
       /\ \A k \in last.block[address].written :
              /\ k \in DOMAIN b.storage
              /\ b.storage[k] = StorageSlot(FirstOriginal(address, k), world[address].storage[k])

(* C3: when an account is touched by several transitions before one
   merge_transitions(Reverts), its revert records the info and the status from
   before the first transition (DeleteIt for a LoadedNotExisting account,
   RevertTo(first previous_info) for an existing account whose info changed)
   and for every touched slot the original value of the first transition that
   touched it; the bundle account holds the last info and per slot the first
   original and the last present value *)
C3_OldValuesPreserved ==
    MergedWithReverts =>
        \A address \in DOMAIN last.transitions :
            (last.block[address].touches >= 2 /\ last.block[address].destructions = 0)
                => OldValuesPreserved(address)

(* The old values for a block merged into a bundle that held no account *)
OldValuesPreservedFirstBlock ==
    (MergedWithReverts /\ last.pre_state = EmptyMap) => C3_OldValuesPreserved

(* The account was Loaded, then destroyed, re-created, destroyed again and
   re-created with slot writes, in the block merged last *)
SelfdestructDance(address) ==
    /\ MergedWithReverts
    /\ address \in DOMAIN last.transitions
    /\ last.pre_world[address].status = "Loaded"
    /\ last.block[address].touches = 4
    /\ last.block[address].destructions = 2
    /\ last.block[address].written # {}
    /\ IsSome(world[address].info)

(* C4: for an account that is Loaded, then destroyed, re-created with slot
   writes, destroyed again and re-created with other slot writes before one
   merge_transitions(Reverts): the bundle account is DestroyedChanged, its
   original_info is the pre-block info and its storage holds only the slots
   written after the last destruction; the revert has previous_status Loaded
   and wipe_storage, maps every such slot to Destroyed, and is DoNothing for
   the info when the final info equals the pre-block info *)
C4_SelfdestructInBlock ==
    \A address \in BundleAddrs :
        SelfdestructDance(address) =>
            LET b == bundle_state.state[address]
                revert == RevertOf(address)
                written == last.block[address].written
            IN /\ b.status = "DestroyedChanged"
               /\ b.original_info = last.pre_world[address].info
               /\ DOMAIN b.storage = written
               /\ \A k \in written : b.storage[k] = StorageSlot(ZERO, world[address].storage[k])
               /\ revert # None
               /\ Unwrap(revert).previous_status = "Loaded"
               /\ Unwrap(revert).wipe_storage
               /\ DOMAIN Unwrap(revert).storage = written
               /\ \A k \in written : Unwrap(revert).storage[k] = RevertToSlotDestroyed
               /\ (b.info = last.pre_world[address].info)
                      => Unwrap(revert).account = DoNothing
               /\ (b.info # last.pre_world[address].info)
                      => Unwrap(revert).account = RevertTo(Unwrap(last.pre_world[address].info))

(* The dance wrote slot 1 before the second destruction and slot 2 after it,
   and ended with the pre-block info *)
C4_Witness ==
    /\ SelfdestructDance(1)
    /\ last.block[1].wiped = {1}
    /\ last.block[1].written = {2}
    /\ bundle_state.state[1].info = last.pre_world[1].info
    /\ last.pre_world[1].storage[1] # ZERO

----------------------------------------------------------------------------
(* Specification SpecDatabase: impl Database for State over one account, the
   code hashes and two block numbers, with a database that may fail and with
   or without a preloaded bundle; a bundle that is not preloaded may still hold
   accounts and bytecode (use_preloaded_bundle and bundle_state are
   independent fields) *)

(* The block numbers asked for: the second one makes the first prunable *)
DatabaseNumbers == {0, BLOCK_HASH_HISTORY + 1}

InitDatabase ==
    /\ \E st \in [Keys -> {ZERO, MaxValue}],
          info \in {None, Some(DefaultInfo), Some(FundedInfo)} :
          /\ db_accounts = [a \in Addrs |-> IF a \in StorageAddrs THEN info ELSE None]
          /\ db_storage = [a \in Addrs |-> IF a \in StorageAddrs /\ info # None THEN st
                                           ELSE [k \in Keys |-> ZERO]]
    /\ \/ /\ use_preloaded_bundle = FALSE
          /\ bundle_state \in {EmptyBundle} \cup PrestateBundles
       \/ /\ use_preloaded_bundle = TRUE
          /\ bundle_state \in PrestateBundles
    /\ transition_state = None
    /\ cache_accounts = EmptyMap
    /\ cache_contracts = EmptyMap
    /\ block_hashes = EmptyMap
    /\ world = EmptyMap
    /\ pre_block = EmptyMap
    /\ last = [op |-> "init"]

CodeByHashCall ==
    \E code_hash \in CodeHashes, db_ok \in BOOLEAN, version \in CodeVersions :
        CodeByHash(code_hash, db_ok, version)

BlockHashDatabaseCall ==
    \E number \in DatabaseNumbers, db_ok \in BOOLEAN : BlockHash(number, db_ok)

NextDatabase ==
    \/ LoadCall
    \/ StorageCall
    \/ CodeByHashCall
    \/ BlockHashDatabaseCall

SpecDatabase == InitDatabase /\ [][NextDatabase]_vars

----------------------------------------------------------------------------
(* Claims on database errors *)

(* The call failed in the database: not a result, not a trap *)
DbFailed(l) ==
    /\ l.op \in {"code_by_hash", "storage", "block_hash"}
    /\ ~l.res.ok
    /\ "trap" \notin DOMAIN l.res

CallOf(l) ==
    CASE l.op = "code_by_hash" -> <<"code_by_hash", l.code_hash>>
      [] l.op = "storage" -> <<"storage", l.address, l.index>>
      [] l.op = "block_hash" -> <<"block_hash", l.number>>

(* The key the failed call asked for is in none of the caches *)
NotCached(l, contracts, accounts, hashes) ==
    CASE l.op = "code_by_hash" -> l.code_hash \notin DOMAIN contracts
      [] l.op = "storage" ->
            l.index \notin DOMAIN Unwrap(accounts[l.address].account).storage
      [] l.op = "block_hash" -> l.number \notin DOMAIN hashes

(* C11: when the database fails in code_by_hash, storage or block_hash, the
   call returns the database's error, inserts nothing into cache.contracts, the
   account's storage or block_hashes, prunes nothing, and a retry asks the
   database again *)
C11_DbErrorsPropagate ==
    [][/\ DbFailed(last') =>
              /\ last'.res = DbError(CallOf(last'))
              /\ last'.db_calls = 1
              /\ cache_contracts' = cache_contracts
              /\ cache_accounts' = cache_accounts
              /\ block_hashes' = block_hashes
              /\ NotCached(last', cache_contracts', cache_accounts', block_hashes')
       /\ (/\ DbFailed(last)
           /\ last'.op = last.op
           /\ CallOf(last') = CallOf(last)) => last'.db_calls = 1]_vars

(* block_hash fails in the database while a key old enough to be pruned is in
   block_hashes, a bytecode and a slot being cached already *)
C11_Witness ==
    /\ DbFailed(last)
    /\ last.op = "block_hash"
    /\ \E k \in DOMAIN block_hashes : k < SaturatingSub(last.number, BLOCK_HASH_HISTORY)
    /\ cache_contracts # EmptyMap
    /\ \E a \in DOMAIN cache_accounts :
           /\ IsSome(cache_accounts[a].account)
           /\ Unwrap(cache_accounts[a].account).storage # EmptyMap

----------------------------------------------------------------------------
(* Claims on the storage precondition *)

(* C12: storage(addr, k) for an address that is not in cache.accounts traps,
   returning neither a value nor an error and never asking the database; for
   an address that is in the cache it never traps *)
C12_StoragePrecondition ==
    [][last'.op = "storage" =>
          IF last'.address \in DOMAIN cache_accounts
          THEN "trap" \notin DOMAIN last'.res
          ELSE /\ last'.res = [ok |-> FALSE, trap |-> TRUE]
               /\ last'.db_calls = 0
               /\ cache_accounts' = cache_accounts]_vars

(* The trap for an account whose slot the database holds a value for *)
C12_Witness ==
    /\ last.op = "storage"
    /\ last.res = [ok |-> FALSE, trap |-> TRUE]
    /\ last.address \notin DOMAIN cache_accounts
    /\ db_storage[last.address][last.index] # ZERO

----------------------------------------------------------------------------
(* Claims on merge_transitions and take_bundle *)

(* The bundle account holds what the transition ended with: its info, its
   status and the present value of each of its slots *)
IsApplied(b, t) ==
    /\ b.info = t.info
    /\ b.status = t.status
    /\ \A k \in DOMAIN t.storage :
           /\ k \in DOMAIN b.storage
           /\ b.storage[k].present_value = t.storage[k].present_value

(* C13: after merge_transitions on a State with a transition buffer the buffer
   is Some(empty), every transition that was in it is applied to bundle_state,
   and a second merge_transitions at once changes no bundle account *)
C13_MergeEmptiesBuffer ==
    [][(last'.op = "merge_transitions" /\ IsSome(transition_state)) =>
          /\ transition_state' = Some(EmptyMap)
          /\ last'.transitions = Unwrap(transition_state)
          /\ \A address \in DOMAIN Unwrap(transition_state) :
                 /\ address \in DOMAIN bundle_state'.state
                 /\ IsApplied(bundle_state'.state[address],
                              Unwrap(transition_state)[address])
          /\ last.op = "merge_transitions" => bundle_state'.state = bundle_state.state]_vars

(* A second merge at once, on a bundle that holds accounts of an earlier merge *)
C13_Witness ==
    /\ last.op = "merge_transitions"
    /\ last.transitions = EmptyMap
    /\ last.pre_state # EmptyMap
    /\ last.blocks >= 1
    /\ \E address \in DOMAIN bundle_state.state :
           bundle_state.state[address].storage # EmptyMap

(* C14: each merge_transitions(Reverts) on a State with a transition buffer
   appends exactly one element, possibly empty, to bundle_state.reverts and
   leaves the elements of earlier merges as they were, in their order; after k
   merges since the last take_bundle the sequence has length k and its last
   element holds reverts of the addresses of the k-th merge only *)
C14_OneRevertVectorPerMerge ==
    [][(/\ last'.op = "merge_transitions"
        /\ last'.retention = "Reverts"
        /\ IsSome(transition_state)) =>
          LET before == bundle_state.reverts
              after == bundle_state'.reverts
          IN /\ Len(after) = Len(before) + 1
             /\ SubSeq(after, 1, Len(before)) = before
             /\ Len(after) = pre_block'.merges
             /\ \A i \in 1..Len(after[Len(after)]) :
                    after[Len(after)][i][1] \in DOMAIN Unwrap(transition_state)]_vars

(* Two merges since the last take_bundle, the first with a revert, the second
   with none *)
C14_Witness ==
    /\ MergedWithReverts
    /\ pre_block.merges = 2
    /\ bundle_state.reverts[1] # << >>
    /\ bundle_state.reverts[2] = << >>

(* C15: take_bundle returns the bundle as it was, with the preloaded pre-state
   and every merged change and revert, and leaves bundle_state empty; it neither
   applies nor discards the pending transitions and leaves transition_state,
   the cache, block_hashes and use_preloaded_bundle unchanged *)
C15_TakeBundle ==
    [][last'.op = "take_bundle" =>
          /\ last'.bundle = bundle_state
          /\ bundle_state' = EmptyBundle
          /\ UNCHANGED <<transition_state, cache_accounts, cache_contracts,
                         block_hashes, use_preloaded_bundle>>]_vars

(* A bundle with a preloaded account and bytecode, a merged change with its
   revert, taken while transitions are pending *)
C15_Witness ==
    /\ last.op = "take_bundle"
    /\ use_preloaded_bundle
    /\ last.bundle.contracts # EmptyMap
    /\ 1 \in DOMAIN last.bundle.state
    /\ last.bundle.state[1].status = "DestroyedAgain"
    /\ \E i \in 1..Len(last.bundle.reverts) : last.bundle.reverts[i] # << >>
    /\ transition_state # Some(EmptyMap)
    /\ bundle_state = EmptyBundle

----------------------------------------------------------------------------
(* Specification SpecBalances: increment_balances and drain_balances on a State
   built with a transition buffer, over a database that may fail *)

InitBalances ==
    /\ db_accounts \in [Addrs -> {None} \cup {Some(i) : i \in DbInfos}]
    /\ db_storage = [a \in Addrs |-> [k \in Keys |-> ZERO]]
    /\ \/ /\ use_preloaded_bundle = FALSE
          /\ bundle_state = EmptyBundle
       \/ /\ use_preloaded_bundle = TRUE
          /\ bundle_state \in PrestateBundles
    /\ transition_state = Some(EmptyMap)
    /\ cache_accounts = EmptyMap
    /\ cache_contracts = EmptyMap
    /\ block_hashes = EmptyMap
    /\ world = EmptyMap
    /\ pre_block = EmptyMap
    /\ last = [op |-> "init"]

IncrementListCall ==
    \E balances \in ListsOf(Addrs \X (0..MaxAmount)) : IncrementBalances(balances, {})

DrainListCall == \E addresses \in ListsOf(Addrs) : DrainBalances(addresses, {})

NextBalances ==
    \/ BasicCall
    \/ IncrementListCall
    \/ DrainListCall

SpecBalances == InitBalances /\ [][NextBalances]_vars

(* The balance the State reports for an address before a call: the cached
   one, else the preloaded bundle's, else the database's *)
HeldBalance(address) ==
    IF address \in DOMAIN cache_accounts THEN BalanceOf(cache_accounts[address])
    ELSE IF use_preloaded_bundle /\ address \in DOMAIN bundle_state.state
    THEN IF IsSome(bundle_state.state[address].info)
         THEN Unwrap(bundle_state.state[address].info).balance ELSE 0
    ELSE IF IsSome(db_accounts[address]) THEN Unwrap(db_accounts[address]).balance
    ELSE 0

NonZeroEntries(balances) == SelectSeq(balances, LAMBDA e : e[2] # 0)

RECURSIVE ListedAmount(_, _)
ListedAmount(balances, address) ==
    IF balances = << >> THEN 0
    ELSE (IF balances[1][1] = address THEN balances[1][2] ELSE 0)
         + ListedAmount(Tail(balances), address)

TimesIn(seq, x) == Cardinality({i \in DOMAIN seq : seq[i] = x})

TransitionBalance(info) == IF IsSome(info) THEN Unwrap(info).balance ELSE 0

(* C16: increment_balances over a succeeding database: an entry of amount zero
   loads nothing and emits nothing, so an address with only such entries is
   left as it was; an address with a non-zero entry is cached afterwards with
   its balance before the call plus the listed amounts, the database having
   been asked at most once for it and not at all if it was cached; one
   transition per non-zero entry is emitted, in list order, each raising the
   balance by its entry's amount, and the buffer receives them in that order *)
C16_IncrementBalances ==
    [][(last'.op = "increment_balances" /\ last'.res.ok) =>
          LET balances == last'.balances
              entries == NonZeroEntries(balances)
              emitted == last'.transitions
          IN /\ \A a \in Addrs :
                   IF \E i \in DOMAIN entries : entries[i][1] = a
                   THEN /\ a \in DOMAIN cache_accounts'
                        /\ BalanceOf(cache_accounts'[a])
                              = HeldBalance(a) + ListedAmount(balances, a)
                        /\ TimesIn(last'.db_basic, a) <= 1
                        /\ a \in DOMAIN cache_accounts => TimesIn(last'.db_basic, a) = 0
                   ELSE /\ TimesIn(last'.db_basic, a) = 0
                        /\ a \in DOMAIN cache_accounts' <=> a \in DOMAIN cache_accounts
                        /\ a \in DOMAIN cache_accounts
                              => cache_accounts'[a] = cache_accounts[a]
             /\ Len(emitted) = Len(entries)
             /\ \A i \in DOMAIN emitted :
                   /\ emitted[i][1] = entries[i][1]
                   /\ TransitionBalance(emitted[i][2].info)
                         = TransitionBalance(emitted[i][2].previous_info) + entries[i][2]
             /\ IsSome(transition_state)
             /\ transition_state' = Some(AddTransitions(Unwrap(transition_state), emitted))
             /\ \A a \in Addrs :
                   (\E i \in DOMAIN entries : entries[i][1] = a)
                      => /\ a \in DOMAIN Unwrap(transition_state')
                         /\ TransitionBalance(Unwrap(transition_state')[a].info)
                               = BalanceOf(cache_accounts'[a])]_vars

(* An address listed twice with non-zero amounts was loaded from the database
   once and holds the database's balance plus both amounts *)
C16_Witness ==
    /\ last.op = "increment_balances"
    /\ last.res.ok
    /\ Len(last.balances) = MaxList
    /\ last.balances[1][1] = last.balances[MaxList][1]
    /\ \A i \in DOMAIN last.balances : last.balances[i][2] # 0
    /\ last.db_basic = <<last.balances[1][1]>>
    /\ Len(last.transitions) = MaxList

(* C17: drain_balances over a succeeding database returns one balance per
   listed address in list order: the balance the State held for the address
   before the call at its first occurrence and 0 at a later one; afterwards
   every listed address is cached with balance 0, an address not listed is as
   it was, and one transition per listed address, in list order, taking the
   returned balance to 0, has been added to the buffer *)
C17_DrainBalances ==
    [][(last'.op = "drain_balances" /\ last'.res.ok) =>
          LET addresses == last'.addresses
              returned == last'.res.val
              emitted == last'.transitions
          IN /\ Len(returned) = Len(addresses)
             /\ \A i \in DOMAIN addresses :
                   /\ returned[i] = IF \E j \in 1..(i - 1) : addresses[j] = addresses[i]
                                    THEN 0 ELSE HeldBalance(addresses[i])
                   /\ addresses[i] \in DOMAIN cache_accounts'
                   /\ BalanceOf(cache_accounts'[addresses[i]]) = 0
             /\ \A a \in Addrs :
                   (\A i \in DOMAIN addresses : addresses[i] # a)
                      => /\ a \in DOMAIN cache_accounts' <=> a \in DOMAIN cache_accounts
                         /\ a \in DOMAIN cache_accounts
                               => cache_accounts'[a] = cache_accounts[a]
             /\ Len(emitted) = Len(addresses)
             /\ \A i \in DOMAIN emitted :
                   /\ emitted[i][1] = addresses[i]
                   /\ TransitionBalance(emitted[i][2].previous_info) = returned[i]
                   /\ TransitionBalance(emitted[i][2].info) = 0
             /\ IsSome(transition_state)
             /\ transition_state' = Some(AddTransitions(Unwrap(transition_state), emitted))]_vars

(* A funded address listed twice: its balance is returned first, then 0 *)
C17_Witness ==
    /\ last.op = "drain_balances"
    /\ last.res.ok
    /\ Len(last.addresses) = MaxList
    /\ last.addresses[1] = last.addresses[MaxList]
    /\ last.res.val[1] > 0
    /\ last.res.val[MaxList] = 0
    /\ Len(last.transitions) = MaxList
    /\ BalanceOf(cache_accounts[last.addresses[1]]) = 0

----------------------------------------------------------------------------
(* Specification SpecLockstep: every operation that writes a cached account,
   commit included, on one address *)

(* CacheAccount::selfdestruct *)
CacheSelfdestruct(cache_account) ==
    [account |-> CacheAccount(None, on_selfdestructed(cache_account.status)),
     transition |-> TransitionAccount(on_selfdestructed(cache_account.status), None,
                                      cache_account.status, account_info(cache_account),
                                      EmptyMap, TRUE)]

(* CacheAccount::newly_created *)
CacheNewlyCreated(cache_account, info, writes) ==
    [account |-> CacheAccount(Some(PlainAccount(info, writes)),
                              on_created(cache_account.status)),
     transition |-> TransitionAccount(on_created(cache_account.status), Some(info),
                                      cache_account.status, account_info(cache_account),
                                      [k \in DOMAIN writes |-> StorageSlot(ZERO, writes[k])],
                                      FALSE)]

(* CacheAccount::change: the slots written were read before, so are cached *)
CacheChange(cache_account, info, writes) ==
    LET storage == Unwrap(cache_account.account).storage
    IN [account |->
            CacheAccount(Some(PlainAccount(info,
                [k \in DOMAIN storage |-> IF k \in DOMAIN writes THEN writes[k]
                                          ELSE storage[k]])),
                on_changed(cache_account.status)),
        transition |-> TransitionAccount(on_changed(cache_account.status), Some(info),
                                         cache_account.status, account_info(cache_account),
                                         [k \in DOMAIN writes |->
                                             StorageSlot(storage[k], writes[k])],
                                         FALSE)]

(* CacheAccount::touch_empty_eip161: the touched empty account is deleted *)
CacheTouchEmpty(cache_account) ==
    [account |-> CacheAccount(None, "Destroyed"),
     transition |-> TransitionAccount("Destroyed", None, cache_account.status,
                                      account_info(cache_account), EmptyMap, TRUE)]

(* CacheState::apply_evm_state for one touched account, by the account-update
   rules: what the cache may be told about an account it holds *)
CacheUpdates(cache_account) ==
    IF IsSome(cache_account.account)
    THEN LET storage == Unwrap(cache_account.account).storage
         IN {CacheSelfdestruct(cache_account), CacheTouchEmpty(cache_account)}
            \cup {CacheChange(cache_account, info, writes) :
                     info \in Infos,
                     writes \in UNION {[S -> Values] :
                                S \in {S \in SUBSET DOMAIN storage :
                                          Cardinality(S) <= MaxWrites}}}
    ELSE {CacheNewlyCreated(cache_account, info, writes) :
             info \in Infos,
             writes \in UNION {[S -> Values \ {ZERO}] :
                        S \in {S \in SUBSET Keys : Cardinality(S) <= MaxWrites}}}

(* Mutant: an account the commit leaves without plain data is dropped from
   the cache *)
CommitEvictsDestroyed(address, update) ==
    /\ cache_accounts' =
           IF update.account.account = << >> THEN MapRemove(cache_accounts, address)
           ELSE MapInsert(cache_accounts, address, update.account)
    /\ transition_state' =
           ApplyTransitionTo(transition_state, << <<address, update.transition>> >>)
    /\ last' = [op |-> "commit", address |-> address]
    /\ FacadeUnchanged

(* DatabaseCommit::commit for State: the cache folds the VM's account in and
   the transition goes to the buffer *)
Commit(address, update) ==
    /\ cache_accounts' = MapInsert(cache_accounts, address, update.account)
    /\ transition_state' =
           ApplyTransitionTo(transition_state, << <<address, update.transition>> >>)
    /\ last' = [op |-> "commit", address |-> address]
    /\ FacadeUnchanged

CommitCall ==
    \E address \in StorageAddrs :
        /\ address \in DOMAIN cache_accounts
        /\ \E update \in CacheUpdates(cache_accounts[address]) : Commit(address, update)

InsertAccountWithStorageCall ==
    \E address \in StorageAddrs, info \in DbInfos,
       storage \in UNION {[S -> {MaxValue}] : S \in SUBSET Keys} :
        InsertAccountWithStorage(address, info, storage)

NextLockstep ==
    \/ LoadCall
    \/ StorageCall
    \/ IncrementOneCall
    \/ DrainOneCall
    \/ InsertNotExistingStorageCall
    \/ InsertAccountStorageCall
    \/ InsertAccountWithStorageCall
    \/ CommitCall

SpecLockstep == InitStorage /\ [][NextLockstep]_vars

(* C19: every cached account has no plain data if and only if its status is
   LoadedNotExisting, Destroyed or DestroyedAgain *)
C19_StatusAccountLockstep ==
    \A a \in DOMAIN cache_accounts :
        cache_accounts[a].account = << >>
           <=> cache_accounts[a].status \in {"LoadedNotExisting", "Destroyed", "DestroyedAgain"}

(* An account loaded from a preloaded bundle as destroyed, re-created by a
   balance increment and destroyed again by a commit *)
C19_Witness ==
    /\ use_preloaded_bundle
    /\ last.op = "commit"
    /\ last.address \in DOMAIN cache_accounts
    /\ cache_accounts[last.address].account = << >>
    /\ cache_accounts[last.address].status = "DestroyedAgain"

----------------------------------------------------------------------------
(* Specification SpecDatabaseRef: the DatabaseRef implementation for State,
   interleaved with the calls that fill the caches *)

RefUnchanged ==
    UNCHANGED <<cache_accounts, cache_contracts, transition_state, bundle_state,
                use_preloaded_bundle, block_hashes, db_accounts, db_storage, world,
                pre_block>>

(* Mutant: basic_ref passes over the preloaded bundle *)
BasicRefResultSkipsBundle(address, db_ok) ==
    IF address \in DOMAIN cache_accounts
    THEN [res |-> Ok(account_info(cache_accounts[address])), db_calls |-> 0]
    ELSE IF db_ok THEN [res |-> Ok(db_accounts[address]), db_calls |-> 1]
    ELSE [res |-> DbError(<<"basic_ref", address>>), db_calls |-> 1]

(* The answer of basic_ref and the number of database calls it makes: the
   cache, the preloaded bundle, the database *)
BasicRefResult(address, db_ok) ==
    IF address \in DOMAIN cache_accounts
    THEN [res |-> Ok(account_info(cache_accounts[address])), db_calls |-> 0]
    ELSE IF use_preloaded_bundle /\ address \in DOMAIN bundle_state.state
    THEN [res |-> Ok(bundle_state.state[address].info), db_calls |-> 0]
    ELSE IF db_ok THEN [res |-> Ok(db_accounts[address]), db_calls |-> 1]
    ELSE [res |-> DbError(<<"basic_ref", address>>), db_calls |-> 1]

(* DatabaseRef::basic_ref for State *)
BasicRef(address, db_ok) ==
    /\ LET r == BasicRefResult(address, db_ok)
       IN last' = [op |-> "basic_ref", address |-> address, res |-> r.res,
                   db_calls |-> r.db_calls]
    /\ RefUnchanged

(* The answer of code_by_hash_ref and the number of database calls it makes *)
CodeByHashRefResult(code_hash, db_ok, version) ==
    IF code_hash \in DOMAIN cache_contracts
    THEN [res |-> Ok(cache_contracts[code_hash]), db_calls |-> 0]
    ELSE IF use_preloaded_bundle /\ code_hash \in DOMAIN bundle_state.contracts
    THEN [res |-> Ok(bundle_state.contracts[code_hash]), db_calls |-> 0]
    ELSE IF db_ok THEN [res |-> Ok(DbCode(code_hash, version)), db_calls |-> 1]
    ELSE [res |-> DbError(<<"code_by_hash_ref", code_hash>>), db_calls |-> 1]

(* DatabaseRef::code_by_hash_ref for State *)
CodeByHashRef(code_hash, db_ok, version) ==
    /\ LET r == CodeByHashRefResult(code_hash, db_ok, version)
       IN last' = [op |-> "code_by_hash_ref", code_hash |-> code_hash, res |-> r.res,
                   db_calls |-> r.db_calls, db_code |-> DbCode(code_hash, version)]
    /\ RefUnchanged

(* The answer of storage_ref and the number of database calls it makes *)
StorageRefResult(address, index, db_ok) ==
    LET from_db == IF db_ok THEN [res |-> Ok(db_storage[address][index]), db_calls |-> 1]
                   ELSE [res |-> DbError(<<"storage_ref", address, index>>), db_calls |-> 1]
    IN IF address \in DOMAIN cache_accounts /\ IsSome(cache_accounts[address].account)
       THEN LET plain_account == Unwrap(cache_accounts[address].account)
            IN IF index \in DOMAIN plain_account.storage
               THEN [res |-> Ok(plain_account.storage[index]), db_calls |-> 0]
               ELSE IF is_storage_known(cache_accounts[address].status)
               THEN [res |-> Ok(ZERO), db_calls |-> 0]
               ELSE from_db
       ELSE from_db

(* Mutant: a slot fetched from the database is kept in the cached account *)
StorageRefCaching(address, index, db_ok) ==
    LET r == StorageRefResult(address, index, db_ok)
    IN /\ last' = [op |-> "storage_ref", address |-> address, index |-> index,
                   res |-> r.res, db_calls |-> r.db_calls]
       /\ cache_accounts' =
              IF /\ r.res.ok
                 /\ r.db_calls > 0
                 /\ address \in DOMAIN cache_accounts
                 /\ IsSome(cache_accounts[address].account)
              THEN [cache_accounts EXCEPT ![address].account =
                       Some(PlainAccount(Unwrap(@).info,
                                         MapInsert(Unwrap(@).storage, index, r.res.val)))]
              ELSE cache_accounts
       /\ UNCHANGED <<cache_contracts, transition_state, bundle_state,
                      use_preloaded_bundle, block_hashes, db_accounts, db_storage, world,
                      pre_block>>

(* DatabaseRef::storage_ref for State: the account need not be loaded *)
StorageRef(address, index, db_ok) ==
    /\ LET r == StorageRefResult(address, index, db_ok)
       IN last' = [op |-> "storage_ref", address |-> address, index |-> index,
                   res |-> r.res, db_calls |-> r.db_calls]
    /\ RefUnchanged

(* The answer of block_hash_ref and the number of database calls it makes *)
BlockHashRefResult(number, db_ok) ==
    IF number \in DOMAIN block_hashes
    THEN [res |-> Ok(block_hashes[number]), db_calls |-> 0]
    ELSE IF db_ok THEN [res |-> Ok(DbBlockHash(number)), db_calls |-> 1]
    ELSE [res |-> DbError(<<"block_hash_ref", number>>), db_calls |-> 1]

(* DatabaseRef::block_hash_ref for State *)
BlockHashRef(number, db_ok) ==
    /\ LET r == BlockHashRefResult(number, db_ok)
       IN last' = [op |-> "block_hash_ref", number |-> number, res |-> r.res,
                   db_calls |-> r.db_calls]
    /\ RefUnchanged

BasicRefCall == \E address \in StorageAddrs, db_ok \in BOOLEAN : BasicRef(address, db_ok)

CodeByHashRefCall ==
    \E code_hash \in CodeHashes, db_ok \in BOOLEAN, version \in CodeVersions :
        CodeByHashRef(code_hash, db_ok, version)

StorageRefCall ==
    \E address \in StorageAddrs, index \in Keys, db_ok \in BOOLEAN :
        StorageRef(address, index, db_ok)

BlockHashRefCall ==
    \E number \in DatabaseNumbers, db_ok \in BOOLEAN : BlockHashRef(number, db_ok)

NextDatabaseRef ==
    \/ LoadCall
    \/ StorageCall
    \/ CodeByHashCall
    \/ BlockHashDatabaseCall
    \/ BasicRefCall
    \/ CodeByHashRefCall
    \/ StorageRefCall
    \/ BlockHashRefCall

SpecDatabaseRef == InitDatabase /\ [][NextDatabaseRef]_vars

RefOps == {"basic_ref", "code_by_hash_ref", "storage_ref", "block_hash_ref"}

(* C20: basic_ref, code_by_hash_ref, storage_ref and block_hash_ref leave the
   cached accounts with their storage, the cached contracts, the block hashes,
   the transition buffer and the bundle as they were, whether the answer came
   from a cache, from the database, or was a database error *)
C20_RefVariantsReadOnly ==
    [][last'.op \in RefOps =>
          /\ cache_accounts' = cache_accounts
          /\ cache_contracts' = cache_contracts
          /\ block_hashes' = block_hashes
          /\ transition_state' = transition_state
          /\ bundle_state' = bundle_state]_vars

(* storage_ref fetched from the database a slot of a cached account that the
   cache does not hold, and the cache still does not hold it *)
C20_Witness ==
    /\ last.op = "storage_ref"
    /\ last.res.ok
    /\ last.db_calls = 1
    /\ last.res.val # ZERO
    /\ last.address \in DOMAIN cache_accounts
    /\ cache_accounts[last.address].account # << >>
    /\ last.index \notin DOMAIN cache_accounts[last.address].account[1].storage

(* C21: basic, basic_ref, code_by_hash and code_by_hash_ref answer from the
   cache when it holds the key, without a database call; otherwise from the
   bundle if use_preloaded_bundle is set and the bundle holds the key, again
   without a database call; otherwise they ask the database exactly once and
   answer what it holds, whatever a bundle that is not preloaded contains *)
C21_LookupPrecedence ==
    [][/\ last'.op \in {"basic", "basic_ref"} =>
            LET a == last'.address
                calls == IF last'.op = "basic" THEN Len(last'.db_basic) ELSE last'.db_calls
            IN IF a \in DOMAIN cache_accounts
               THEN /\ calls = 0
                    /\ last'.res = [ok |-> TRUE, val |-> account_info(cache_accounts[a])]
               ELSE IF use_preloaded_bundle /\ a \in DOMAIN bundle_state.state
               THEN /\ calls = 0
                    /\ last'.res = [ok |-> TRUE, val |-> bundle_state.state[a].info]
               ELSE /\ calls = 1
                    /\ last'.res.ok => last'.res.val = db_accounts[a]
       /\ last'.op \in {"code_by_hash", "code_by_hash_ref"} =>
            LET h == last'.code_hash
            IN IF h \in DOMAIN cache_contracts
               THEN /\ last'.db_calls = 0
                    /\ last'.res = [ok |-> TRUE, val |-> cache_contracts[h]]
               ELSE IF use_preloaded_bundle /\ h \in DOMAIN bundle_state.contracts
               THEN /\ last'.db_calls = 0
                    /\ last'.res = [ok |-> TRUE, val |-> bundle_state.contracts[h]]
               ELSE /\ last'.db_calls = 1
                    /\ last'.res.ok => last'.res.val = last'.db_code]_vars

(* basic answered from the database for an address that a bundle which is not
   preloaded holds with another info *)
C21_Witness ==
    /\ ~use_preloaded_bundle
    /\ last.op = "basic"
    /\ last.address \in DOMAIN bundle_state.state
    /\ last.db_basic = <<last.address>>
    /\ last.res.ok
    /\ last.res.val = db_accounts[last.address]
    /\ last.res.val # bundle_state.state[last.address].info

----------------------------------------------------------------------------
(* Specification SpecRevertOrder: transitions for several addresses in one
   block, merged into the bundle *)

InitRevertOrder ==
    /\ bundle_state = EmptyBundle
    /\ use_preloaded_bundle = FALSE
    /\ world \in [Addrs -> {WorldAccount("LoadedNotExisting", None, ZeroStorage),
                            WorldAccount("Loaded", Some(AccountInfo(1, 1, KECCAK_EMPTY)),
                                         ZeroStorage)}]
    /\ pre_block = [world |-> world, transitions |-> 0, merges |-> 0,
                    block |-> [a \in Addrs |-> Untouched], order |-> << >>]
    /\ transition_state = Some(EmptyMap)
    /\ cache_accounts = EmptyMap
    /\ cache_contracts = EmptyMap
    /\ block_hashes = EmptyMap
    /\ db_accounts = EmptyMap
    /\ db_storage = EmptyMap
    /\ last = [op |-> "init"]

(* Transitions that change the info only: a destruction, a creation, a change *)
ApplyInfoTransitionCall ==
    \E address \in Addrs :
        \E update \in IF IsSome(world[address].info)
                      THEN {Selfdestruct(world[address])}
                           \cup {Change(world[address], info, EmptyMap) : info \in Infos}
                      ELSE {NewlyCreated(world[address], info, EmptyMap) : info \in Infos} :
            ApplyTransition(address, update)

NextRevertOrder == ApplyInfoTransitionCall \/ MergeTransitionsCall

SpecRevertOrder == InitRevertOrder /\ [][NextRevertOrder]_vars

(* C22: the revert vector written by one merge_transitions(Reverts) lists the
   addresses in the order in which they were first given a transition in that
   block *)
C22_RevertOrder ==
    [][(/\ last'.op = "merge_transitions"
        /\ last'.retention = "Reverts"
        /\ bundle_state'.reverts # bundle_state.reverts) =>
          LET written == bundle_state'.reverts[Len(bundle_state'.reverts)]
              listed(a) == \E i \in DOMAIN written : written[i][1] = a
          IN [i \in DOMAIN written |-> written[i][1]]
                = SelectSeq(pre_block.order, listed)]_vars

(* What the merge does keep: one entry per address at most, only for addresses
   given a transition in the block *)
RevertAddressesOfBlock ==
    [][(/\ last'.op = "merge_transitions"
        /\ bundle_state'.reverts # bundle_state.reverts) =>
          LET written == bundle_state'.reverts[Len(bundle_state'.reverts)]
          IN /\ \A i, j \in DOMAIN written : written[i][1] = written[j][1] => i = j
             /\ \A i \in DOMAIN written :
                   \E j \in DOMAIN pre_block.order : pre_block.order[j] = written[i][1]]_vars

(* C23: a transition added for an address that has one in the buffer leaves
   the entry's previous_status and previous_info as they were and sets its
   status and info to the new transition's; so whatever the number of
   transitions in the block, every entry of the buffer has the status and info
   the address had before its first transition of the block as previous_*,
   and those of its last transition as status and info *)
C23_TransitionComposition ==
    [][last'.op = "apply_transition" =>
          LET a == last'.address
              buffer == transition_state'[1]
          IN /\ a \in DOMAIN buffer
             /\ a \in DOMAIN transition_state[1] =>
                   /\ buffer[a].previous_status = transition_state[1][a].previous_status
                   /\ buffer[a].previous_info = transition_state[1][a].previous_info
             /\ \A b \in DOMAIN buffer :
                   /\ buffer[b].previous_status = pre_block.world[b].status
                   /\ buffer[b].previous_info = pre_block.world[b].info
                   /\ buffer[b].status = world'[b].status
                   /\ buffer[b].info = world'[b].info
                   /\ b # a => buffer[b] = transition_state[1][b]]_vars

(* A third transition for an address created and destroyed earlier in the
   block, while the other address has an entry as well *)
C23_Witness ==
    /\ last.op = "apply_transition"
    /\ pre_block.block[last.address].touches = 3
    /\ DOMAIN transition_state[1] = DOMAIN world
    /\ transition_state[1][last.address].previous_status = "LoadedNotExisting"
    /\ transition_state[1][last.address].status = "DestroyedChanged"

(* C24: a code_by_hash that succeeds leaves the hash in cache.contracts with
   the bytecode it returned; a hash in cache.contracts is answered from there,
   without a database call, whatever the database holds for it by then; and no
   step removes or replaces a cached bytecode *)
C24_CodeByHashCacheThrough ==
    [][/\ (last'.op = "code_by_hash" /\ last'.res.ok) =>
             /\ last'.code_hash \in DOMAIN cache_contracts'
             /\ cache_contracts'[last'.code_hash] = last'.res.val
       /\ (last'.op = "code_by_hash" /\ last'.code_hash \in DOMAIN cache_contracts) =>
             /\ last'.res = [ok |-> TRUE, val |-> cache_contracts[last'.code_hash]]
             /\ last'.db_calls = 0
       /\ \A h \in DOMAIN cache_contracts :
             /\ h \in DOMAIN cache_contracts'
             /\ cache_contracts'[h] = cache_contracts[h]]_vars

(* A hit on bytecode that came from the database, which now holds another
   bytecode for the hash *)
C24_Witness ==
    /\ last.op = "code_by_hash"
    /\ last.db_calls = 0
    /\ last.res.ok
    /\ last.res.val.src = "db"
    /\ last.res.val # last.db_code
    /\ cache_contracts[last.code_hash] = last.res.val

(* C25: block_hash(n) for a key n of block_hashes, seeded or stored by an
   earlier query, returns the stored hash, makes no database call and leaves
   block_hashes as it was *)
C25_BlockHashHit ==
    (last.op = "block_hash" /\ last.number \in DOMAIN last.pre) =>
        /\ last.res = [ok |-> TRUE, val |-> last.pre[last.number]]
        /\ last.db_calls = 0
        /\ block_hashes = last.pre

(* A hit on a seeded hash, which is not the database's, with a key in the map
   that a miss would have pruned *)
C25_Witness ==
    /\ last.op = "block_hash"
    /\ last.number \in DOMAIN last.pre
    /\ last.res.ok
    /\ last.res.val = [src |-> "seed", n |-> last.number]
    /\ \E k \in DOMAIN block_hashes : k + BLOCK_HASH_HISTORY < last.number

(* C26: merge_transitions leaves the bundle's accounts that merging the same
   transitions with either retention gives, and with PlainState the revert
   vector it appends has no entry *)
C26_RetentionKeepsPostState ==
    [][(last'.op = "merge_transitions" /\ transition_state # << >>) =>
          /\ \A retention \in {"Reverts", "PlainState"} :
                \A order \in IterationOrders(DOMAIN transition_state[1]) :
                   LET merged == ApplyTransitionsAndCreateReverts(
                                     bundle_state, transition_state[1], order, retention)
                   IN bundle_state'.state = merged.state
          /\ last'.retention = "PlainState" =>
                bundle_state'.reverts = Append(bundle_state.reverts, << >>)]_vars

(* A PlainState merge of a block that changed an account the bundle held: with
   Reverts it would have recorded an entry *)
C26_Witness ==
    /\ last.op = "merge_transitions"
    /\ last.retention = "PlainState"
    /\ last.transitions # << >>
    /\ last.pre_state # << >>
    /\ bundle_state.state # last.pre_state
    /\ bundle_state.reverts # << >>
    /\ bundle_state.reverts[Len(bundle_state.reverts)] = << >>
    /\ \E order \in IterationOrders(DOMAIN last.transitions) :
          ApplyTransitions(last.pre_state, << >>, last.transitions, order, TRUE).reverts
             # << >>

----------------------------------------------------------------------------
(* Specification SpecNoBuffer: a State built without with_bundle_update, with
   or without a bundle prestate; the transitions handed to apply_transition
   are the caller's and need not come from the cache *)

InitNoBuffer ==
    /\ db_accounts = [a \in Addrs |-> Some(FundedInfo)]
    /\ db_storage = [a \in Addrs |-> [k \in Keys |-> ZERO]]
    /\ \/ /\ use_preloaded_bundle = FALSE
          /\ bundle_state = EmptyBundle
       \/ /\ use_preloaded_bundle = TRUE
          /\ bundle_state \in PrestateBundles
    /\ transition_state = None
    /\ world = [a \in Addrs |-> WorldAccount("LoadedNotExisting", None, ZeroStorage)]
    /\ pre_block = [world |-> world, transitions |-> 0, merges |-> 0,
                    block |-> [a \in Addrs |-> Untouched], order |-> << >>]
    /\ cache_accounts = EmptyMap
    /\ cache_contracts = EmptyMap
    /\ block_hashes = EmptyMap
    /\ last = [op |-> "init"]

(* apply_transition with one transition that destroys or creates the account *)
ApplyOneTransitionCall ==
    \E address \in StorageAddrs :
        \E update \in IF IsSome(world[address].info)
                      THEN {Selfdestruct(world[address])}
                      ELSE {NewlyCreated(world[address], FundedInfo, EmptyMap)} :
            ApplyTransition(address, update)

NextNoBuffer ==
    \/ LoadCall
    \/ CommitCall
    \/ IncrementOneCall
    \/ DrainOneCall
    \/ ApplyOneTransitionCall
    \/ MergeTransitionsCall

SpecNoBuffer == InitNoBuffer /\ [][NextNoBuffer]_vars

(* C27: on a State built without a transition buffer every step of commit,
   apply_transition, increment_balances, drain_balances and merge_transitions
   leaves transition_state None and the bundle as it was, while a commit, an
   increment and a drain leave their account in the cache as updated *)
C27_NoBufferNothingReachesBundle ==
    [][/\ transition_state = << >>
       /\ transition_state' = << >>
       /\ bundle_state' = bundle_state
       /\ last'.op = "commit" =>
             /\ last'.address \in DOMAIN cache_accounts'
             /\ \E update \in CacheUpdates(cache_accounts[last'.address]) :
                   cache_accounts'[last'.address] = update.account
       /\ (last'.op = "increment_balances" /\ last'.res.ok) =>
             \A i \in DOMAIN last'.balances :
                BalanceOf(cache_accounts'[last'.balances[i][1]])
                   = HeldBalance(last'.balances[i][1]) + last'.balances[i][2]
       /\ (last'.op = "drain_balances" /\ last'.res.ok) =>
             \A i \in DOMAIN last'.addresses :
                BalanceOf(cache_accounts'[last'.addresses[i]]) = 0]_vars

(* A merge after transitions were applied and an account was destroyed by a
   commit, on a State with a bundle prestate *)
C27_Witness ==
    /\ last.op = "merge_transitions"
    /\ pre_block.transitions > 1
    /\ transition_state = << >>
    /\ bundle_state.state # << >>
    /\ bundle_state.reverts = << >>
    /\ \E a \in DOMAIN cache_accounts :
          /\ cache_accounts[a].status = "DestroyedAgain"
          /\ bundle_state.state[a].status # "DestroyedAgain"

----------------------------------------------------------------------------
(* storage against storage_ref *)

(* What storage_ref answers in the state a storage call started from, the
   database behaving as it did for that call: a storage call that did not
   reach the database is compared under either behaviour of the database *)
StorageRefAgrees(db_oks) ==
    \A db_ok \in db_oks :
        LET r == StorageRefResult(last'.address, last'.index, db_ok).res
        IN IF last'.res.ok THEN r = last'.res ELSE ~r.ok

StorageStepAgrees ==
    IF last'.db_calls = 0 THEN StorageRefAgrees(BOOLEAN)
    ELSE StorageRefAgrees({last'.res.ok})

(* C28: for an address in the cache and any key, storage_ref answers from the
   state what storage answers, also for a cached account without plain data,
   where the value is ZERO *)
C28_StorageRefAgreesWithStorage ==
    [][(last'.op = "storage" /\ last'.address \in DOMAIN cache_accounts)
          => StorageStepAgrees]_vars

(* The agreement that does hold: cached accounts that have plain data *)
StorageRefAgreesOnPlainData ==
    [][(/\ last'.op = "storage"
        /\ last'.address \in DOMAIN cache_accounts
        /\ cache_accounts[last'.address].account # << >>)
          => StorageStepAgrees]_vars

----------------------------------------------------------------------------
(* basic, code_by_hash and block_hash against their reference variants *)

(* The same value, or an error of the database on both sides *)
SameResult(ref, res) == IF res.ok THEN ref = res ELSE ~ref.ok

(* The behaviours of the database under which the call just made is compared:
   the one it met, or either one if it did not reach the database *)
DatabaseMet(reached) == IF reached THEN {last'.res.ok} ELSE BOOLEAN

(* C29: from any state, with or without a preloaded bundle, basic_ref,
   code_by_hash_ref and block_hash_ref answer what basic, code_by_hash and
   block_hash answer from that state against the same database *)
C29_RefVariantsAgree ==
    [][/\ last'.op = "basic" =>
             \A db_ok \in DatabaseMet(last'.db_basic # << >>) :
                SameResult(BasicRefResult(last'.address, db_ok).res, last'.res)
       /\ last'.op = "code_by_hash" =>
             \A db_ok \in DatabaseMet(last'.db_calls > 0) :
                SameResult(CodeByHashRefResult(last'.code_hash, db_ok,
                                               last'.db_code.version).res,
                           last'.res)
       /\ last'.op = "block_hash" =>
             \A db_ok \in DatabaseMet(last'.db_calls > 0) :
                SameResult(BlockHashRefResult(last'.number, db_ok).res, last'.res)]_vars

(* A bytecode answered from the preloaded bundle, after an account was
   loaded from that bundle and a block hash was fetched *)
C29_Witness ==
    /\ use_preloaded_bundle
    /\ last.op = "code_by_hash"
    /\ last.res.ok
    /\ last.res.val.src = "bundle"
    /\ \E a \in DOMAIN cache_accounts : cache_accounts[a].status \in {"Destroyed", "DestroyedChanged"}
    /\ block_hashes # << >>

----------------------------------------------------------------------------
(* The width of the block-hash window *)

(* C30: block_hashes starting empty, after any successful block_hash queries
   in any order the largest and the smallest key differ by at most
   BLOCK_HASH_HISTORY, and the map holds at most BLOCK_HASH_HISTORY + 1 hashes *)
C30_BoundedWindow ==
    block_hashes # << >> =>
        /\ Max(DOMAIN block_hashes) - Min(DOMAIN block_hashes) <= BLOCK_HASH_HISTORY
        /\ Cardinality(DOMAIN block_hashes) <= BLOCK_HASH_HISTORY + 1

----------------------------------------------------------------------------
(* Specification SpecFacade: every operation of the facade that takes
   &mut self, on one State *)

(* apply_transition with a transition the cache could emit for a cached
   account: only the buffer, if there is one, is written *)
ApplyCacheTransitionCall ==
    \E address \in StorageAddrs :
        /\ address \in DOMAIN cache_accounts
        /\ \E update \in CacheUpdates(cache_accounts[address]) :
              transition_state' =
                  ApplyTransitionTo(transition_state, << <<address, update.transition>> >>)
        /\ last' = [op |-> "apply_transition", address |-> address]
        /\ UNCHANGED cache_accounts
        /\ FacadeUnchanged

(* code_by_hash for the hash the prestate bundle holds *)
CodeByHashOneCall == \E db_ok \in BOOLEAN : CodeByHash(1, db_ok, 1)

(* block_hash for the first block *)
BlockHashOneCall == \E db_ok \in BOOLEAN : BlockHash(0, db_ok)

NextFacade ==
    \/ LoadCall
    \/ CodeByHashOneCall
    \/ StorageCall
    \/ BlockHashOneCall
    \/ CommitCall
    \/ IncrementOneCall
    \/ DrainOneCall
    \/ InsertNotExistingStorageCall
    \/ InsertAccountStorageCall
    \/ InsertAccountWithStorageCall
    \/ ApplyCacheTransitionCall
    \/ MergeTransitionsCall
    \/ TakeBundle

SpecFacade == InitNoBuffer /\ [][NextFacade]_vars

(* C31: no operation of the facade removes an address from cache.accounts or
   a hash from cache.contracts *)
C31_CacheGrowthMonotone ==
    [][/\ DOMAIN cache_accounts \subseteq DOMAIN cache_accounts'
       /\ DOMAIN cache_contracts \subseteq DOMAIN cache_contracts']_vars

(* The bundle was taken while the cache holds an account that a commit
   destroyed a second time, a bytecode and a block hash *)
C31_Witness ==
    /\ last.op = "take_bundle"
    /\ \E a \in DOMAIN cache_accounts : cache_accounts[a].status = "DestroyedAgain"
    /\ cache_contracts # << >>
    /\ block_hashes # << >>

====
